---- MODULE Spec2Model ----
(***************************************************************************)
(* A model of the agent framework of ai_arr_control:                       *)
(*   - AgentOrchestrator (src/agents/orchestrator.py): registry, schedules, *)
(*     per-agent active-run counter, on-demand and scheduled execution,     *)
(*     the main loop of start() and stop();                                 *)
(*   - AgentChain (src/agents/base.py): dependency resolution and ordered   *)
(*     execution;                                                           *)
(*   - AgentMonitor (src/agents/monitor.py): health state machine, events;  *)
(*   - CircuitBreaker (src/core/utils.py), HealthCheckCache                 *)
(*     (src/core/cache.py), IndexerAutoHealAgent, IndexerControlAgent and   *)
(*     IndexerHealthAgent (src/agents).                                     *)
(* The components do not share state, so each has a specification of its    *)
(* own over its own variables (SpecOrch, SpecChain, SpecMonitor,           *)
(* SpecBreaker, ...); the variables of the other components stay as         *)
(* constructed.                                                             *)
(*                                                                         *)
(* Scheduling model (asyncio, one event loop): a coroutine runs without     *)
(* interleaving from one suspension point to the next.  In execute_agent    *)
(* the only suspension point is `await agent.run()`: the execution lock is  *)
(* never held across a suspension, so acquiring it never suspends.  One     *)
(* action of the model is one such atomic block.                            *)
(***************************************************************************)
EXTENDS Integers, Sequences, FiniteSets, TLC

\* ------------------------------------------------------------------ bounds
MaxEntries == 2     \* slots ever used in the entry array of the schedules dict
MaxRuns == 2        \* agent runs started by the orchestrator in one behaviour

MaxChainRuns == 3   \* agent runs started by the chain in one behaviour
MaxFailures == 4    \* consecutive failure updates of one agent the monitor is given
max_event_history == 2   \* AgentMonitor(max_event_history): a small buffer
failure_threshold == 3   \* CircuitBreaker(failure_threshold)
recovery_timeout == 2    \* CircuitBreaker(recovery_timeout), in clock ticks
MaxClock == 5       \* the breaker's clock runs over 1..MaxClock
ttl_seconds == 1    \* HealthCheckCache(ttl_seconds), in clock ticks
max_entries == 2    \* HealthCheckCache(max_entries)
MaxCacheClock == 2  \* the cache's clock runs over 0..MaxCacheClock
MaxGets == 2        \* get calls made on the cache in one behaviour
MaxSets == 3        \* set calls made on the cache in one behaviour
MaxIndexers == 2    \* indexers a service lists in a heal cycle
MaxTime == 2        \* the orchestrator's clock runs over 0..MaxTime
MaxRecorded == 3    \* record_event calls made on the event buffer in one behaviour
MaxLimit == 2       \* get_events is called with a limit in 0..MaxLimit
MaxUpdates == 2     \* disable_indexer / enable_indexer calls made in one behaviour
MaxPolls == 2       \* polling cycles one start() call begins in one behaviour

\* ------------------------------------------------------- program constants
DefaultMaxConcurrentRuns == 1     \* AgentSchedule.max_concurrent_runs
NoTime == -1                      \* a timestamp that is None
error_threshold == 3              \* AgentMonitor.error_threshold

Names == {"a", "b"}               \* agent names
Tasks == {"poller", "api1", "api2"}  \* the polling loop and two on-demand callers
Intervals == {1}                  \* interval_seconds given to register_agent
Tomb == "~"                       \* a deleted slot of the schedules dict

ChainNames == <<"x", "y", "z">>   \* the agents given to AgentChain.register, in this order
Priorities == {1, 2}              \* AgentPriority values given to the agents (CRITICAL, HIGH)
\* the register_dependency calls made: <<n, d>> is "n depends on d"
DepChoices == {<<"y", "x">>, <<"x", "y">>, <<"z", "y">>, <<"x", "z">>}
ExecArgs == {"none", "y"}         \* the agent_name given to AgentChain.execute

VARIABLES
    \* ---- AgentOrchestrator
    agents,        \* keys of self.agents
    agentEnabled,  \* Agent.enabled of the agent object registered under each name
    agentState,    \* Agent.state of the agent object registered under each name
    schedules,     \* self.schedules: name -> AgentSchedule
    schedKeys,     \* entry array of the self.schedules dict (insertion order, Tomb = deleted)
    active_runs,   \* self._active_runs: name -> int
    metrics,       \* self.metrics (agent counters)
    now,           \* utc_now()
    task,          \* the coroutines calling into the orchestrator
    overlap,       \* history: names registered while a run of an earlier
                   \* registration of the same name was still in progress
    \* ---- AgentOrchestrator: the main loop (start / stop)
    running,       \* self._running
    loop,          \* the coroutine running start(): where it is, and whether it was cancelled
    cycles,        \* self.metrics (cycle counters)
    agentKeys,     \* entry array of the self.agents dict (insertion order, Tomb = deleted)
    stopCall,      \* the coroutines running stop(): the caller's and the loop's own
    \* ---- AgentChain
    chainReg,      \* keys of AgentChain.agents, in insertion order
    cPriority,     \* Agent.priority.value
    cEnabled,      \* Agent.enabled
    cDeps,         \* Agent._dependencies
    cState,        \* Agent.state
    cMetrics,      \* Agent.metrics
    execution_order,  \* AgentChain.execution_order
    chainCall,     \* the coroutine running AgentChain.execute
    \* ---- AgentMonitor
    agent_health,  \* self.agent_health: name -> AgentHealthStatus
    events,        \* self.events
    failsSince,    \* history: failure updates of each name since its last success update
    monLast,       \* history: the last call made to the monitor
    \* ---- AgentMonitor: the event buffer under every configured cap, and get_events
    evCap,         \* self.max_event_history as given to the constructor
    evBuf,         \* self.events
    evCount,       \* history: the number of record_event calls made
    evQuery,       \* history: the get_events call just made and what it returned
    \* ---- CircuitBreaker
    breaker,       \* failure_count, last_failure_time, is_open
    clock,         \* the time the breaker reads (loop.time() or time.time())
    cbFails,       \* history: record_failure calls since the last record_success or recovery
    cbLast,        \* history: the last call made to the breaker and what it returned
    \* ---- HealthCheckCache
    cacheKeys,     \* the keys of self._cache, in insertion order
    cacheEntry,    \* self._cache: key -> CacheEntry
    hit_count,     \* self._hit_count
    miss_count,    \* self._miss_count
    cacheNow,      \* the time utc_now() returns
    lastSet,       \* history: (service, id) -> the entry written by the most recent set for it
    setCount,      \* history: the number of set calls made
    cacheLast,     \* history: the get call just made, if the last call was one, and what it returned
    \* ---- IndexerAutoHealAgent
    healPc,        \* where run() is: idle, fetch, test, disable, commit, done
    healSvc,       \* the position of the service loop in the list of services
    healTodo,      \* the indexers of the current service still to be tested
    staged,        \* the IndexerHealth records added to the session, not yet committed
    persisted,     \* the IndexerHealth records committed to the database
    remoteEnabled, \* the enable flag of each indexer at its service
    healLog,       \* history: the calls the cycle made to its collaborators, with their outcome
    \* ---- IndexerControlAgent
    ctlHeap,       \* the dict objects of a disable_indexer / enable_indexer call
    ctlSent,       \* the update calls the services received, in order
    ctlCall,       \* the coroutine running disable_indexer / enable_indexer
    \* ---- AgentOrchestrator: on-demand calls observed with the agent's flag
    callFlag,      \* history: agent.enabled of the agent each on-demand call fetched
    regLast,       \* history: the register call just made, if the last call was one
    \* ---- AgentOrchestrator: several start() calls on one instance
    starts,        \* the coroutines running start(): where each is
    \* ---- IndexerHealthAgent
    health         \* the run() in progress: position, calls made, result

cacheVars == <<cacheKeys, cacheEntry, hit_count, miss_count, cacheNow, lastSet, setCount,
               cacheLast>>

healVars == <<healPc, healSvc, healTodo, staged, persisted, remoteEnabled, healLog>>

orchVars == <<agents, agentEnabled, agentState, schedules, schedKeys, active_runs,
              metrics, now, task, overlap>>

loopVars == <<running, loop, cycles, agentKeys, stopCall>>

chainVars == <<chainReg, cPriority, cEnabled, cDeps, cState, cMetrics, execution_order,
               chainCall>>

monVars == <<agent_health, events, failsSince, monLast>>

evVars == <<evCap, evBuf, evCount, evQuery>>

cbVars == <<breaker, clock, cbFails, cbLast>>

ctlVars == <<ctlHeap, ctlSent, ctlCall>>

flagVars == <<callFlag, regLast>>

startVars == <<starts>>

healthVars == <<health>>

vars == <<orchVars, loopVars, chainVars, monVars, evVars, cbVars, cacheVars, healVars,
          ctlVars, flagVars, startVars, healthVars>>

\* ------------------------------------------------------------ small helpers
Max(x, y) == IF x >= y THEN x ELSE y

\* Python dicts as functions on their key set
EmptyFn == [k \in {} |-> 0]

Put(f, k, v) == [m \in DOMAIN f \cup {k} |-> IF m = k THEN v ELSE f[m]]

Del(f, k) == [m \in DOMAIN f \ {k} |-> f[m]]

Live(keys) == {keys[i] : i \in {j \in 1..Len(keys) : keys[j] # Tomb}}

IdleTask ==
    [pc |-> "idle",        \* idle, running (suspended in agent.run()), returned, raised
     kind |-> "none",      \* exec = execute_agent, poll = execute_scheduled_agents
     name |-> "none",      \* the agent_name of the execute_agent call
     sched |-> "none",     \* the schedule object captured at line 206
     ran |-> "none",       \* how the last agent.run() of the call ended
     skip |-> "none",      \* why execute_agent returned without running
     result |-> "none",    \* the value execute_agent returned
     results |-> <<>>,     \* the list execute_scheduled_agents collects
     exc |-> "none",       \* the exception that left the call
     it_pos |-> 1, it_used |-> 0, it_len |-> 0]   \* the dict iterator of the poll

\* A finished call shows what it handed to its caller (returned / raised) in the
\* state right after it ended; the caller then has the value and the coroutine
\* is gone, so every later step finds the task idle again.
Settled ==
    [t \in Tasks |-> IF task[t].pc \in {"returned", "raised"} THEN IdleTask ELSE task[t]]

\* ------------------------------------------------------------ AgentSchedule
NewSchedule(iv, t) ==
    [interval_seconds |-> iv, enabled |-> TRUE, last_executed |-> NoTime,
     next_execution |-> t, max_concurrent_runs |-> DefaultMaxConcurrentRuns]

\* (mutant of should_execute: the enabled flag and the due time are not looked at)
should_execute_always(s, t) == TRUE

\* (mutant of update_next_execution: the next execution is counted from the
\* previous due time, not from the completion time)
update_from_due_time(s, t) ==
    [s EXCEPT !.last_executed = t, !.next_execution = @ + s.interval_seconds]

should_execute(s, t) ==
    IF ~s.enabled THEN FALSE
    ELSE IF s.next_execution = NoTime THEN TRUE
    ELSE t >= s.next_execution

update_next_execution(s, t) ==
    [s EXCEPT !.last_executed = t, !.next_execution = t + s.interval_seconds]

\* ------------------------------------------------------ orchestrator: Init
InitOrch ==
    /\ agents = {}
    /\ agentEnabled = [n \in Names |-> TRUE]
    /\ agentState = [n \in Names |-> "idle"]
    /\ schedules = EmptyFn
    /\ schedKeys = << >>
    /\ active_runs = EmptyFn
    /\ metrics = [total_agent_runs |-> 0, total_agent_successes |-> 0,
                  total_agent_failures |-> 0]
    /\ now = 0
    /\ task = [t \in Tasks |-> IdleTask]
    /\ overlap = {}

\* --------------------------------------------- orchestrator: registry calls
\* register_agent(agent, interval_seconds): scheduled = interval_seconds is not None
RegisterAgent(n, scheduled, iv) ==
    /\ scheduled => Len(schedKeys) < MaxEntries
    /\ IF n \in agents
       THEN \* raise ValueError
            UNCHANGED <<agents, active_runs, schedules, schedKeys, overlap>>
       ELSE /\ agents' = agents \cup {n}
            /\ overlap' = IF \E t \in Tasks : task[t].pc = "running" /\ task[t].name = n
                          THEN overlap \cup {n} ELSE overlap
            /\ active_runs' = Put(active_runs, n, 0)
            /\ IF scheduled
               THEN /\ schedules' = Put(schedules, n, NewSchedule(iv, now))
                    /\ schedKeys' = Append(schedKeys, n)
               ELSE UNCHANGED <<schedules, schedKeys>>
    /\ task' = Settled
    /\ UNCHANGED <<agentEnabled, agentState, metrics, now>>

\* a call in progress keeps its reference to the schedule object it captured
\* at line 206; once the name is unregistered that object is no longer the one
\* (if any) in self.schedules
Detach(tk, n) ==
    IF tk.pc = "running" /\ tk.name = n /\ tk.sched = "attached"
    THEN [tk EXCEPT !.sched = "detached"]
    ELSE tk

UnregisterAgent(n) ==
    /\ IF n \notin agents
       THEN \* return False
            /\ task' = Settled
            /\ UNCHANGED <<agents, active_runs, schedules, schedKeys, agentEnabled,
                           agentState, overlap>>
       ELSE /\ agents' = agents \ {n}
            /\ schedules' = Del(schedules, n)
            /\ schedKeys' = [i \in 1..Len(schedKeys) |->
                               IF schedKeys[i] = n THEN Tomb ELSE schedKeys[i]]
            /\ active_runs' = Del(active_runs, n)
            /\ task' = [t \in Tasks |-> Detach(Settled[t], n)]
            \* the agent object leaves the registry; the next registration of
            \* the name brings a newly constructed Agent (enabled, Idle)
            /\ agentEnabled' = [agentEnabled EXCEPT ![n] = TRUE]
            /\ agentState' = [agentState EXCEPT ![n] = "idle"]
            /\ overlap' = overlap \ {n}
    /\ UNCHANGED <<metrics, now>>

\* enable_agent (flag = TRUE) and disable_agent (flag = FALSE)
SetEnabled(n, flag) ==
    /\ IF n \notin agents
       THEN \* return False
            UNCHANGED <<agentEnabled, schedules>>
       ELSE /\ agentEnabled' = [agentEnabled EXCEPT ![n] = flag]
            /\ schedules' = IF n \in DOMAIN schedules
                            THEN [schedules EXCEPT ![n].enabled = flag]
                            ELSE schedules
    /\ task' = Settled
    /\ UNCHANGED <<agents, agentState, schedKeys, active_runs, metrics, now, overlap>>

EnableAgent(n) == SetEnabled(n, TRUE)

DisableAgent(n) == SetEnabled(n, FALSE)

\* ------------------------------------------------ orchestrator: execute_agent
\* (mutant of CapReached: the check lets one run too many through)
CapReachedLate(sch, ar, n) ==
    /\ n \in DOMAIN sch
    /\ ar[n] > sch[n].max_concurrent_runs

\* (a check that holds agents without a schedule to the default cap too)
CapReachedUnscheduled(sch, ar, n) ==
    /\ n \in DOMAIN ar
    /\ ar[n] >= DefaultMaxConcurrentRuns

\* line 209: the concurrency check, on the dicts as they are at the call
CapReached(sch, ar, n) ==
    /\ n \in DOMAIN sch
    /\ ar[n] >= sch[n].max_concurrent_runs

\* the schedule object the call captures at line 206 ("none" = None)
Captured(sch, n) == IF n \in DOMAIN sch THEN "attached" ELSE "none"

\* runs started so far: every finished run counted one success or one failure
Running(n) == {t \in Tasks : task[t].pc = "running" /\ task[t].name = n}

RunsStarted ==
    metrics.total_agent_successes + metrics.total_agent_failures
      + Cardinality({t \in Tasks : task[t].pc = "running"})

\* metrics after agent.run() ended with `outcome` (lines 223-235)
MetricsAfter(m, outcome) ==
    CASE outcome = "ok" ->
           [m EXCEPT !.total_agent_runs = @ + 1, !.total_agent_successes = @ + 1]
      [] outcome = "fail" ->
           [m EXCEPT !.total_agent_runs = @ + 1, !.total_agent_failures = @ + 1]
      [] OTHER ->
           [m EXCEPT !.total_agent_failures = @ + 1]

\* what execute_agent hands back when run() ended with `outcome` (lines 230, 235)
ResultOf(outcome) == IF outcome = "raise" THEN "none" ELSE outcome

\* line 239: the counter after the cleanup step
Decremented(c) == Max(0, c - 1)

\* execute_agent(n) called by an on-demand caller: lines 201-221
\* a turned-away call that leaves through the finally block of lines 237-243
TurnedAwayInsideTry(t, n) ==
    /\ task' = [Settled EXCEPT ![t] =
                  [IdleTask EXCEPT !.pc = "returned", !.kind = "exec", !.name = n,
                      !.skip = IF n \notin agents THEN "not_found" ELSE "at_cap"]]
    /\ active_runs' = IF n \in agents
                      THEN [active_runs EXCEPT ![n] = Decremented(@)] ELSE active_runs
    /\ schedules' = IF n \in agents
                    THEN [schedules EXCEPT ![n] = update_next_execution(@, now)]
                    ELSE schedules
    /\ UNCHANGED agentState

\* lines 201-203 and 209-213: return None, the name is not registered or the
\* agent is at its max concurrent runs; both returns come before the try
TurnedAway(t, n) ==
    /\ task' = [Settled EXCEPT ![t] =
                  [IdleTask EXCEPT !.pc = "returned", !.kind = "exec", !.name = n,
                      !.skip = IF n \notin agents THEN "not_found" ELSE "at_cap"]]
    /\ UNCHANGED <<active_runs, agentState, schedules>>

ExecuteAgent(t, n) ==
    /\ t # "poller"
    /\ task[t].pc # "running"
    /\ IF n \notin agents \/ CapReached(schedules, active_runs, n)
       THEN TurnedAway(t, n)
       ELSE /\ RunsStarted < MaxRuns
            /\ active_runs' = [active_runs EXCEPT ![n] = @ + 1]
            /\ agentState' = [agentState EXCEPT ![n] = "running"]
            /\ task' = [Settled EXCEPT ![t] = [IdleTask EXCEPT !.pc = "running",
                                             !.kind = "exec", !.name = n,
                                             !.sched = Captured(schedules, n)]]
            /\ UNCHANGED schedules
    /\ UNCHANGED <<agents, agentEnabled, schedKeys, metrics, now, overlap>>

\* the finally block of execute_agent (lines 237-243) for the call of task t:
\* KeyError when the name has left _active_runs, else decrement and update the
\* captured schedule object (visible only while it is still the registered one)
FinallyRaises(t) == task[t].name \notin DOMAIN active_runs

ActiveAfter(t) ==
    IF FinallyRaises(t) THEN active_runs
    ELSE [active_runs EXCEPT ![task[t].name] = Decremented(@)]

SchedulesAfter(t) ==
    LET n == task[t].name
    IN IF ~FinallyRaises(t) /\ task[t].sched = "attached"
       THEN [schedules EXCEPT ![n] = update_next_execution(@, now)]
       ELSE schedules

\* agent.run() of an on-demand call returns or raises: lines 221-243
FinishRun(t, outcome) ==
    /\ t # "poller"
    /\ task[t].pc = "running"
    /\ metrics' = MetricsAfter(metrics, outcome)
    /\ active_runs' = ActiveAfter(t)
    /\ schedules' = SchedulesAfter(t)
    /\ task' = [Settled EXCEPT ![t] =
                  IF FinallyRaises(t)
                  THEN [@ EXCEPT !.pc = "raised", !.sched = "none", !.ran = outcome,
                                 !.exc = "KeyError"]
                  ELSE [@ EXCEPT !.pc = "returned", !.sched = "none", !.ran = outcome,
                                 !.result = ResultOf(outcome)]]
    /\ UNCHANGED <<agents, agentEnabled, agentState, schedKeys, now, overlap>>

\* ------------------------------------- orchestrator: execute_scheduled_agents
\* next() of the iterator over self.schedules.items() (CPython dict iterator):
\* RuntimeError when the dict's size differs from the size at the iterator's
\* creation, or when an entry turns up after `len` entries were handed out
\* (keys changed); deleted slots are skipped.  The entry array is not compacted
\* below five insertions, which MaxRegs keeps the model under.
IterNext(keys, used, pos, len) ==
    LET cand == {i \in pos..Len(keys) : keys[i] # Tomb}
        i == CHOOSE c \in cand : \A d \in cand : c <= d
    IN IF used # Cardinality({j \in 1..Len(keys) : keys[j] # Tomb})
       THEN [kind |-> "RuntimeError", name |-> "none", pos |-> pos, len |-> len]
       ELSE IF cand = {}
       THEN [kind |-> "stop", name |-> "none", pos |-> pos, len |-> len]
       ELSE IF len = 0
       THEN [kind |-> "RuntimeError", name |-> "none", pos |-> pos, len |-> len]
       ELSE [kind |-> "item", name |-> keys[i], pos |-> i + 1, len |-> len - 1]

\* the for loop of lines 253-258 up to its next suspension: entries whose
\* schedule is not due, and entries execute_agent rejects at the cap (it
\* returns None, nothing is appended), are passed without suspending
RECURSIVE PollScan(_, _, _, _, _, _, _)
PollScan(keys, sch, ar, t0, used, pos, len) ==
    LET r == IterNext(keys, used, pos, len)
    IN IF r.kind # "item" THEN r
       ELSE IF should_execute(sch[r.name], t0) /\ ~CapReached(sch, ar, r.name)
       THEN r
       ELSE PollScan(keys, sch, ar, t0, used, r.pos, r.len)

\* the poller goes on from iterator position (pos, len) with the dicts sch, ar
\* and the results collected so far: it starts the next due run, returns the
\* results, or raises the iterator's RuntimeError
PollContinue(t, sch, ar, results, ran, used, pos, len, started) ==
    LET r == PollScan(schedKeys, sch, ar, now, used, pos, len)
    IN CASE r.kind = "item" ->
              /\ started < MaxRuns
              /\ active_runs' = [ar EXCEPT ![r.name] = @ + 1]
              /\ agentState' = [agentState EXCEPT ![r.name] = "running"]
              /\ task' = [Settled EXCEPT ![t] =
                            [IdleTask EXCEPT !.pc = "running", !.kind = "poll",
                                !.name = r.name, !.sched = Captured(sch, r.name),
                                !.results = results, !.ran = ran, !.it_used = used,
                                !.it_pos = r.pos, !.it_len = r.len]]
         [] r.kind = "stop" ->
              /\ active_runs' = ar
              /\ task' = [Settled EXCEPT ![t] =
                            [IdleTask EXCEPT !.pc = "returned", !.kind = "poll",
                                !.results = results, !.ran = ran]]
              /\ UNCHANGED agentState
         [] OTHER ->
              /\ active_runs' = ar
              /\ task' = [Settled EXCEPT ![t] =
                            [IdleTask EXCEPT !.pc = "raised", !.kind = "poll",
                                !.exc = "RuntimeError", !.results = results,
                                !.ran = ran]]
              /\ UNCHANGED agentState

\* execute_scheduled_agents() is called: lines 251-256
PollStart(t) ==
    /\ t = "poller"
    /\ task[t].pc # "running"
    /\ PollContinue(t, schedules, active_runs, << >>, "none",
                    Cardinality(DOMAIN schedules), 1, Cardinality(DOMAIN schedules),
                    RunsStarted)
    /\ UNCHANGED <<agents, agentEnabled, schedules, schedKeys, metrics, now, overlap>>

\* agent.run() of the run the poller awaits returns or raises: lines 221-243 of
\* execute_agent, then lines 257-260 and the loop up to its next suspension
PollFinishRun(t, outcome) ==
    /\ t = "poller"
    /\ task[t].pc = "running"
    /\ metrics' = MetricsAfter(metrics, outcome)
    /\ schedules' = SchedulesAfter(t)
    /\ IF FinallyRaises(t)
       THEN /\ task' = [Settled EXCEPT ![t] = [@ EXCEPT !.pc = "raised", !.sched = "none",
                                                     !.ran = outcome, !.exc = "KeyError"]]
            /\ UNCHANGED <<active_runs, agentState>>
       ELSE PollContinue(t, SchedulesAfter(t), ActiveAfter(t),
                         IF ResultOf(outcome) = "none" THEN task[t].results
                         ELSE Append(task[t].results, ResultOf(outcome)),
                         outcome, task[t].it_used, task[t].it_pos, task[t].it_len,
                         RunsStarted - 1)
    /\ UNCHANGED <<agents, agentEnabled, schedKeys, now, overlap>>

Outcomes == {"ok", "fail", "raise"}

\* the callers of SpecOrch: the polling loop and one on-demand trigger
OrchTasks == {"poller", "api1"}

NextOrch ==
    \/ /\ \E n \in Names, sc \in BOOLEAN, iv \in Intervals : RegisterAgent(n, sc, iv)
       /\ UNCHANGED <<loopVars, chainVars, monVars, evVars, cbVars, cacheVars, healVars, ctlVars, flagVars, startVars, healthVars>>
    \/ /\ \E n \in Names : UnregisterAgent(n)
       /\ UNCHANGED <<loopVars, chainVars, monVars, evVars, cbVars, cacheVars, healVars, ctlVars, flagVars, startVars, healthVars>>
    \/ /\ \E n \in Names : EnableAgent(n)
       /\ UNCHANGED <<loopVars, chainVars, monVars, evVars, cbVars, cacheVars, healVars, ctlVars, flagVars, startVars, healthVars>>
    \/ /\ \E n \in Names : DisableAgent(n)
       /\ UNCHANGED <<loopVars, chainVars, monVars, evVars, cbVars, cacheVars, healVars, ctlVars, flagVars, startVars, healthVars>>
    \/ /\ \E t \in OrchTasks, n \in Names : ExecuteAgent(t, n)
       /\ UNCHANGED <<loopVars, chainVars, monVars, evVars, cbVars, cacheVars, healVars, ctlVars, flagVars, startVars, healthVars>>
    \/ /\ \E t \in OrchTasks, o \in Outcomes : FinishRun(t, o)
       /\ UNCHANGED <<loopVars, chainVars, monVars, evVars, cbVars, cacheVars, healVars, ctlVars, flagVars, startVars, healthVars>>
    \/ /\ \E t \in OrchTasks : PollStart(t)
       /\ UNCHANGED <<loopVars, chainVars, monVars, evVars, cbVars, cacheVars, healVars, ctlVars, flagVars, startVars, healthVars>>
    \/ /\ \E t \in OrchTasks, o \in Outcomes : PollFinishRun(t, o)
       /\ UNCHANGED <<loopVars, chainVars, monVars, evVars, cbVars, cacheVars, healVars, ctlVars, flagVars, startVars, healthVars>>

\* the same calls with each on-demand call observed: callFlag[t] is the
\* enabled flag of the agent that the call of t fetched at line 205
NoRegister == [on |-> "none", name |-> "none", exc |-> "none"]

InitFlags ==
    /\ callFlag = [t \in Tasks |-> TRUE]
    /\ regLast = NoRegister

ExecuteAgentObserved(t, n) ==
    /\ ExecuteAgent(t, n)
    /\ callFlag' = IF task'[t].pc = "running"
                   THEN [callFlag EXCEPT ![t] = agentEnabled[n]]
                   ELSE callFlag

NextOnDemand ==
    \/ /\ \E n \in Names, sc \in BOOLEAN, iv \in Intervals : RegisterAgent(n, sc, iv)
       /\ UNCHANGED <<loopVars, chainVars, monVars, evVars, cbVars, cacheVars, healVars,
                      ctlVars, flagVars, startVars, healthVars>>
    \/ /\ \E n \in Names : UnregisterAgent(n)
       /\ UNCHANGED <<loopVars, chainVars, monVars, evVars, cbVars, cacheVars, healVars,
                      ctlVars, flagVars, startVars, healthVars>>
    \/ /\ \E n \in Names : EnableAgent(n)
       /\ UNCHANGED <<loopVars, chainVars, monVars, evVars, cbVars, cacheVars, healVars,
                      ctlVars, flagVars, startVars, healthVars>>
    \/ /\ \E n \in Names : DisableAgent(n)
       /\ UNCHANGED <<loopVars, chainVars, monVars, evVars, cbVars, cacheVars, healVars,
                      ctlVars, flagVars, startVars, healthVars>>
    \/ /\ \E t \in OrchTasks, n \in Names : ExecuteAgentObserved(t, n)
       /\ UNCHANGED <<loopVars, chainVars, monVars, evVars, cbVars, cacheVars, healVars,
                      ctlVars, regLast, startVars, healthVars>>
    \/ /\ \E t \in OrchTasks, o \in Outcomes : FinishRun(t, o)
       /\ UNCHANGED <<loopVars, chainVars, monVars, evVars, cbVars, cacheVars, healVars,
                      ctlVars, flagVars, startVars, healthVars>>
    \/ /\ \E t \in OrchTasks : PollStart(t)
       /\ UNCHANGED <<loopVars, chainVars, monVars, evVars, cbVars, cacheVars, healVars,
                      ctlVars, flagVars, startVars, healthVars>>
    \/ /\ \E t \in OrchTasks, o \in Outcomes : PollFinishRun(t, o)
       /\ UNCHANGED <<loopVars, chainVars, monVars, evVars, cbVars, cacheVars, healVars,
                      ctlVars, flagVars, startVars, healthVars>>

\* two on-demand callers and no polling loop: concurrent execute_agent calls
DemandTasks == {"api1", "api2"}

NextConcurrent ==
    \/ /\ \E n \in Names, sc \in BOOLEAN, iv \in Intervals : RegisterAgent(n, sc, iv)
       /\ UNCHANGED <<loopVars, chainVars, monVars, evVars, cbVars, cacheVars, healVars,
                      ctlVars, flagVars, startVars, healthVars>>
    \/ /\ \E n \in Names : UnregisterAgent(n)
       /\ UNCHANGED <<loopVars, chainVars, monVars, evVars, cbVars, cacheVars, healVars,
                      ctlVars, flagVars, startVars, healthVars>>
    \/ /\ \E t \in DemandTasks, n \in Names : ExecuteAgent(t, n)
       /\ UNCHANGED <<loopVars, chainVars, monVars, evVars, cbVars, cacheVars, healVars,
                      ctlVars, flagVars, startVars, healthVars>>
    \/ /\ \E t \in DemandTasks, o \in Outcomes : FinishRun(t, o)
       /\ UNCHANGED <<loopVars, chainVars, monVars, evVars, cbVars, cacheVars, healVars,
                      ctlVars, flagVars, startVars, healthVars>>

\* utc_now() advances between two steps of the event loop
Tick ==
    /\ now < MaxTime
    /\ now' = now + 1
    /\ task' = Settled
    /\ UNCHANGED <<agents, agentEnabled, agentState, schedules, schedKeys, active_runs,
                   metrics, overlap>>

\* the orchestrator with its clock running: one scheduled agent name, the
\* polling loop and one on-demand caller
SchedNames == {"a"}

NextSched ==
    \/ /\ \E n \in SchedNames, iv \in Intervals : RegisterAgent(n, TRUE, iv)
       /\ UNCHANGED <<loopVars, chainVars, monVars, evVars, cbVars, cacheVars, healVars, ctlVars, flagVars, startVars, healthVars>>
    \/ /\ \E n \in SchedNames : UnregisterAgent(n)
       /\ UNCHANGED <<loopVars, chainVars, monVars, evVars, cbVars, cacheVars, healVars, ctlVars, flagVars, startVars, healthVars>>
    \/ /\ \E n \in SchedNames : EnableAgent(n)
       /\ UNCHANGED <<loopVars, chainVars, monVars, evVars, cbVars, cacheVars, healVars, ctlVars, flagVars, startVars, healthVars>>
    \/ /\ \E n \in SchedNames : DisableAgent(n)
       /\ UNCHANGED <<loopVars, chainVars, monVars, evVars, cbVars, cacheVars, healVars, ctlVars, flagVars, startVars, healthVars>>
    \/ /\ \E t \in OrchTasks, n \in Names : ExecuteAgent(t, n)
       /\ UNCHANGED <<loopVars, chainVars, monVars, evVars, cbVars, cacheVars, healVars, ctlVars, flagVars, startVars, healthVars>>
    \/ /\ \E t \in OrchTasks, o \in Outcomes : FinishRun(t, o)
       /\ UNCHANGED <<loopVars, chainVars, monVars, evVars, cbVars, cacheVars, healVars, ctlVars, flagVars, startVars, healthVars>>
    \/ /\ \E t \in OrchTasks : PollStart(t)
       /\ UNCHANGED <<loopVars, chainVars, monVars, evVars, cbVars, cacheVars, healVars, ctlVars, flagVars, startVars, healthVars>>
    \/ /\ \E t \in OrchTasks, o \in Outcomes : PollFinishRun(t, o)
       /\ UNCHANGED <<loopVars, chainVars, monVars, evVars, cbVars, cacheVars, healVars, ctlVars, flagVars, startVars, healthVars>>
    \/ Tick /\ UNCHANGED <<loopVars, chainVars, monVars, evVars, cbVars, cacheVars, healVars, ctlVars, flagVars, startVars, healthVars>>

\* ------------------------------------------ orchestrator: start() and stop()
\* stop() is called from outside ("api") and from the finally block of
\* start() ("loop")
StopCallers == {"api", "loop"}

IdleStop ==
    [pc |-> "idle",       \* idle, cleaning (suspended in agent.cleanup()), returned, raised
     cur |-> "none",      \* the agent whose cleanup() is awaited
     at_call |-> {},      \* history: the agents registered when stop() was called
     cleaned |-> << >>,   \* history: the agents whose cleanup() this call has called
     failed |-> {},       \* history: those whose cleanup() raised
     exc |-> "none",      \* the exception that left the call
     it_pos |-> 1, it_used |-> 0, it_len |-> 0]   \* the iterator over self.agents.values()

InitLoop ==
    /\ running = FALSE
    /\ loop = [pc |-> "none",         \* none, polling, sleeping, stopping, done
               cancelled |-> FALSE]   \* history: the task running start() was cancelled
    /\ cycles = [total_cycles |-> 0, successful_cycles |-> 0, failed_cycles |-> 0]
    /\ agentKeys = << >>
    /\ stopCall = [c \in StopCallers |-> IdleStop]

\* register_agent and unregister_agent, with the entry array of self.agents
RegisterInLoop(n, scheduled, iv) ==
    /\ Len(agentKeys) < MaxEntries
    /\ RegisterAgent(n, scheduled, iv)
    /\ agentKeys' = IF n \in agents THEN agentKeys ELSE Append(agentKeys, n)
    /\ UNCHANGED <<running, loop, cycles, stopCall>>

UnregisterInLoop(n) ==
    /\ UnregisterAgent(n)
    /\ agentKeys' = [i \in 1..Len(agentKeys) |->
                       IF agentKeys[i] = n THEN Tomb ELSE agentKeys[i]]
    /\ UNCHANGED <<running, loop, cycles, stopCall>>

\* lines 282-290: the cycle counters after execute_scheduled_agents returned `results`
AllSucceeded(results) == \A i \in 1..Len(results) : results[i] = "ok"

CyclesAfterResults(c, results) ==
    IF results = << >> THEN c
    ELSE IF AllSucceeded(results)
    THEN [c EXCEPT !.total_cycles = @ + 1, !.successful_cycles = @ + 1]
    ELSE [c EXCEPT !.total_cycles = @ + 1, !.failed_cycles = @ + 1]

\* (mutant of CyclesAfterException: the failed cycle is not counted in the total)
CyclesAfterExceptionUncounted(c) == [c EXCEPT !.failed_cycles = @ + 1]

\* lines 294-297: the cycle counters after an exception left the cycle
CyclesAfterException(c) ==
    [c EXCEPT !.failed_cycles = @ + 1, !.total_cycles = @ + 1]

\* (mutant of LoopGoesOn: the loop does not look at the flag)
LoopGoesOnRegardless(flag) == TRUE

\* line 277: `while self._running`
LoopGoesOn(flag) == flag

\* lines 279-297, from the point where execute_scheduled_agents suspends,
\* returns or raises, up to the loop's next suspension
AfterPoll ==
    LET p == task'["poller"]
    IN CASE p.pc = "running" ->
              /\ loop' = [loop EXCEPT !.pc = "polling"]
              /\ UNCHANGED cycles
         [] p.pc = "returned" ->
              /\ loop' = [loop EXCEPT !.pc = "sleeping"]
              /\ cycles' = CyclesAfterResults(cycles, p.results)
         [] OTHER ->
              /\ loop' = [loop EXCEPT !.pc = "sleeping"]
              /\ cycles' = CyclesAfterException(cycles)

\* every run of a cycle begun now can be started within MaxRuns
CycleFits == RunsStarted + Cardinality(DOMAIN schedules) <= MaxRuns

\* stop(), lines 310-315: the for loop over self.agents.values() from iterator
\* position (pos, len) up to its next suspension
StopContinue(c, call, used, pos, len) ==
    LET r == IterNext(agentKeys, used, pos, len)
    IN stopCall' = [stopCall EXCEPT ![c] =
          CASE r.kind = "item" ->
                 [call EXCEPT !.pc = "cleaning", !.cur = r.name,
                              !.cleaned = Append(@, r.name), !.it_used = used,
                              !.it_pos = r.pos, !.it_len = r.len]
            [] r.kind = "stop" ->
                 [call EXCEPT !.pc = "returned", !.cur = "none"]
            [] OTHER ->
                 [call EXCEPT !.pc = "raised", !.cur = "none", !.exc = r.kind]]

\* stop() is called: lines 307-311
StopBegin(c) ==
    /\ running' = FALSE
    /\ StopContinue(c, [IdleStop EXCEPT !.at_call = agents],
                    Cardinality(agents), 1, Cardinality(agents))

\* start(), lines 269-279: the flag check, then the first cycle up to its
\* first suspension.  (A start() that finds the flag set returns at once.)
Start ==
    /\ ~running
    /\ loop.pc = "none"
    /\ CycleFits
    /\ running' = TRUE
    /\ PollStart("poller")
    /\ AfterPoll
    /\ UNCHANGED <<agentKeys, stopCall>>

\* agent.run() of the run the loop awaits returns or raises
LoopRunEnds(outcome) ==
    /\ loop.pc = "polling"
    /\ PollFinishRun("poller", outcome)
    /\ AfterPoll
    /\ UNCHANGED <<running, agentKeys, stopCall>>

\* the loop leaves `while self._running` or is cancelled: the finally block
\* of start() calls stop() (lines 299-303)
LoopExit(cancelled) ==
    /\ StopBegin("loop")
    /\ loop' = [pc |-> IF stopCall'["loop"].pc = "cleaning" THEN "stopping" ELSE "done",
                cancelled |-> cancelled]
    /\ task' = Settled
    /\ UNCHANGED <<agents, agentEnabled, agentState, schedules, schedKeys, active_runs,
                   metrics, now, overlap, cycles, agentKeys>>

\* asyncio.sleep(check_interval) returns: the next cycle, or the end of the loop
Wake ==
    /\ loop.pc = "sleeping"
    /\ IF LoopGoesOn(running)
       THEN /\ CycleFits
            /\ PollStart("poller")
            /\ AfterPoll
            /\ UNCHANGED <<running, agentKeys, stopCall>>
       ELSE LoopExit(FALSE)

\* the task running start() is cancelled while it sleeps: CancelledError is
\* not an Exception, so line 294 does not catch it and line 299 does
Cancel ==
    /\ loop.pc = "sleeping"
    /\ LoopExit(TRUE)

\* stop() called from outside (once)
Stop ==
    /\ stopCall["api"].pc = "idle"
    /\ StopBegin("api")
    /\ task' = Settled
    /\ UNCHANGED <<agents, agentEnabled, agentState, schedules, schedKeys, active_runs,
                   metrics, now, overlap, loop, cycles, agentKeys>>

\* agent.cleanup() returns (ok) or raises (lines 312-315), then the for loop
\* goes on; when the loop's own stop() ends, start() ends
CleanupEnds(c, ok) ==
    /\ stopCall[c].pc = "cleaning"
    /\ StopContinue(c, [stopCall[c] EXCEPT !.failed =
                           IF ok THEN @ ELSE @ \cup {stopCall[c].cur}],
                    stopCall[c].it_used, stopCall[c].it_pos, stopCall[c].it_len)
    /\ loop' = IF c = "loop" /\ stopCall'[c].pc # "cleaning"
               THEN [loop EXCEPT !.pc = "done"] ELSE loop
    /\ task' = Settled
    /\ UNCHANGED <<agents, agentEnabled, agentState, schedules, schedKeys, active_runs,
                   metrics, now, overlap, running, cycles, agentKeys>>

\* the main loop with the registry changing under it: agent "a" comes and
\* goes, agent "b" stays once registered.  The polls fall within one unit of
\* the clock, so an agent that has run is due again only after it was
\* registered again.
NextLoop ==
    \/ /\ \E n \in Names, iv \in Intervals : RegisterInLoop(n, TRUE, iv)
       /\ UNCHANGED <<chainVars, monVars, evVars, cbVars, cacheVars, healVars, ctlVars, flagVars, startVars, healthVars>>
    \/ /\ \E n \in SchedNames : UnregisterInLoop(n)
       /\ UNCHANGED <<chainVars, monVars, evVars, cbVars, cacheVars, healVars, ctlVars, flagVars, startVars, healthVars>>
    \/ Start /\ UNCHANGED <<chainVars, monVars, evVars, cbVars, cacheVars, healVars, ctlVars, flagVars, startVars, healthVars>>
    \/ /\ \E o \in Outcomes : LoopRunEnds(o)
       /\ UNCHANGED <<chainVars, monVars, evVars, cbVars, cacheVars, healVars, ctlVars, flagVars, startVars, healthVars>>
    \/ Wake /\ UNCHANGED <<chainVars, monVars, evVars, cbVars, cacheVars, healVars, ctlVars, flagVars, startVars, healthVars>>
    \/ Cancel /\ UNCHANGED <<chainVars, monVars, evVars, cbVars, cacheVars, healVars, ctlVars, flagVars, startVars, healthVars>>
    \/ Stop /\ UNCHANGED <<chainVars, monVars, evVars, cbVars, cacheVars, healVars, ctlVars, flagVars, startVars, healthVars>>
    \/ /\ \E c \in StopCallers, ok \in BOOLEAN : CleanupEnds(c, ok)
       /\ UNCHANGED <<chainVars, monVars, evVars, cbVars, cacheVars, healVars, ctlVars, flagVars, startVars, healthVars>>

\* the main loop with one agent, "a", that comes and goes
NextLoopOne ==
    \/ /\ \E n \in SchedNames, iv \in Intervals : RegisterInLoop(n, TRUE, iv)
       /\ UNCHANGED <<chainVars, monVars, evVars, cbVars, cacheVars, healVars, ctlVars, flagVars, startVars, healthVars>>
    \/ /\ \E n \in SchedNames : UnregisterInLoop(n)
       /\ UNCHANGED <<chainVars, monVars, evVars, cbVars, cacheVars, healVars, ctlVars, flagVars, startVars, healthVars>>
    \/ Start /\ UNCHANGED <<chainVars, monVars, evVars, cbVars, cacheVars, healVars, ctlVars, flagVars, startVars, healthVars>>
    \/ /\ \E o \in Outcomes : LoopRunEnds(o)
       /\ UNCHANGED <<chainVars, monVars, evVars, cbVars, cacheVars, healVars, ctlVars, flagVars, startVars, healthVars>>
    \/ Wake /\ UNCHANGED <<chainVars, monVars, evVars, cbVars, cacheVars, healVars, ctlVars, flagVars, startVars, healthVars>>
    \/ Cancel /\ UNCHANGED <<chainVars, monVars, evVars, cbVars, cacheVars, healVars, ctlVars, flagVars, startVars, healthVars>>
    \/ Stop /\ UNCHANGED <<chainVars, monVars, evVars, cbVars, cacheVars, healVars, ctlVars, flagVars, startVars, healthVars>>
    \/ /\ \E c \in StopCallers, ok \in BOOLEAN : CleanupEnds(c, ok)
       /\ UNCHANGED <<chainVars, monVars, evVars, cbVars, cacheVars, healVars, ctlVars, flagVars, startVars, healthVars>>

\* the runs in progress, the interval sleep and the cleanups of the loop's own
\* stop() eventually return
LoopFairness ==
    /\ WF_vars(/\ \E o \in Outcomes : LoopRunEnds(o)
               /\ UNCHANGED <<chainVars, monVars, evVars, cbVars, cacheVars, healVars, ctlVars, flagVars, startVars, healthVars>>)
    /\ WF_vars(Wake /\ UNCHANGED <<chainVars, monVars, evVars, cbVars, cacheVars, healVars, ctlVars, flagVars, startVars, healthVars>>)
    /\ WF_vars(/\ \E ok \in BOOLEAN : CleanupEnds("loop", ok)
               /\ UNCHANGED <<chainVars, monVars, evVars, cbVars, cacheVars, healVars, ctlVars, flagVars, startVars, healthVars>>)


\* ------------------------------- orchestrator: start() and stop(), interleaved
\* Two start() calls and any number of stop() calls on one instance.  A
\* polling cycle is taken as a whole: it suspends (an agent is run) and ends
\* with no result, with results or with an exception.  The agents' cleanup
\* does not suspend (Agent.cleanup, base.py:142-148), so stop() is one step.
StartCalls == {"s1", "s2"}

IdleStart ==
    [pc |-> "none",       \* none, refused (line 272), polling, sleeping, done
     polls |-> 0,         \* history: the polling cycles the call began
     told |-> FALSE]      \* history: stop() ran while the call's loop was active

InitStarts == starts = [l \in StartCalls |-> IdleStart]

\* the loop of a start() call is between line 278 and its exit
LoopActive(l) == starts[l].pc \in {"polling", "sleeping"}

PollResults == {<< >>, <<"ok">>, <<"ok", "fail">>}

\* start(), lines 270-280: refused when the flag is set, else the flag is set
\* and the first cycle begins
StartCall(l) ==
    /\ starts[l].pc = "none"
    /\ IF running
       THEN /\ starts' = [starts EXCEPT ![l].pc = "refused"]
            /\ UNCHANGED running
       ELSE /\ running' = TRUE
            /\ starts' = [starts EXCEPT ![l].pc = "polling", ![l].polls = 1]
    /\ UNCHANGED cycles

\* lines 280-298: execute_scheduled_agents returns or raises, the cycle is
\* counted and the loop sleeps
PollEnds(l, raised, results) ==
    /\ starts[l].pc = "polling"
    /\ cycles' = IF raised THEN CyclesAfterException(cycles)
                 ELSE CyclesAfterResults(cycles, results)
    /\ starts' = [starts EXCEPT ![l].pc = "sleeping"]
    /\ UNCHANGED running

\* stop(), lines 305-317, from any caller: the flag is cleared
ToldToStop == [l \in StartCalls |-> IF LoopActive(l) THEN [starts[l] EXCEPT !.told = TRUE]
                                    ELSE starts[l]]

StopCall ==
    /\ running' = FALSE
    /\ starts' = ToldToStop
    /\ UNCHANGED cycles

\* the sleep of line 292 / 298 returns: line 278 tests the flag; the loop
\* begins its next cycle or leaves through stop() (line 303)
WakeUp(l) ==
    /\ starts[l].pc = "sleeping"
    /\ IF LoopGoesOn(running)
       THEN /\ starts[l].polls < MaxPolls
            /\ starts' = [starts EXCEPT ![l].pc = "polling", ![l].polls = @ + 1]
            /\ UNCHANGED running
       ELSE /\ running' = FALSE
            /\ starts' = [ToldToStop EXCEPT ![l].pc = "done"]
    /\ UNCHANGED cycles

\* the task running start() is cancelled at a suspension: lines 300-303
CancelStart(l) ==
    /\ LoopActive(l)
    /\ running' = FALSE
    /\ starts' = [ToldToStop EXCEPT ![l].pc = "done"]
    /\ UNCHANGED cycles

NextStarts ==
    \/ /\ \E l \in StartCalls : StartCall(l)
       /\ UNCHANGED <<orchVars, loop, agentKeys, stopCall, chainVars, monVars, evVars, cbVars,
                      cacheVars, healVars, ctlVars, flagVars, healthVars>>
    \/ /\ \E l \in StartCalls, r \in BOOLEAN, res \in PollResults : PollEnds(l, r, res)
       /\ UNCHANGED <<orchVars, loop, agentKeys, stopCall, chainVars, monVars, evVars, cbVars,
                      cacheVars, healVars, ctlVars, flagVars, healthVars>>
    \/ /\ StopCall
       /\ UNCHANGED <<orchVars, loop, agentKeys, stopCall, chainVars, monVars, evVars, cbVars,
                      cacheVars, healVars, ctlVars, flagVars, healthVars>>
    \/ /\ \E l \in StartCalls : WakeUp(l)
       /\ UNCHANGED <<orchVars, loop, agentKeys, stopCall, chainVars, monVars, evVars, cbVars,
                      cacheVars, healVars, ctlVars, flagVars, healthVars>>
    \/ /\ \E l \in StartCalls : CancelStart(l)
       /\ UNCHANGED <<orchVars, loop, agentKeys, stopCall, chainVars, monVars, evVars, cbVars,
                      cacheVars, healVars, ctlVars, flagVars, healthVars>>

\* ================================================================ AgentChain
CNames == {ChainNames[i] : i \in 1..Len(ChainNames)}

SeqSet(q) == {q[i] : i \in 1..Len(q)}

IdleCall ==
    [pc |-> "idle",       \* idle, running (suspended in agent.run()), returned, raised
     arg |-> "none",      \* the agent_name argument ("none" = None)
     todo |-> << >>,      \* the rest of agents_to_run
     cur |-> "none",      \* the agent whose run() is awaited
     done |-> << >>,      \* history: the agents run so far in this call
     results |-> << >>,   \* the results list
     exc |-> "none"]      \* the exception that left the call

NewMetrics ==
    [total_runs |-> 0, successful_runs |-> 0, failed_runs |-> 0, last_error |-> "none"]

InitChain ==
    /\ chainReg = << >>
    /\ cPriority = [n \in CNames |-> 3]
    /\ cEnabled = [n \in CNames |-> TRUE]
    /\ cDeps = [n \in CNames |-> {}]
    /\ cState = [n \in CNames |-> "idle"]
    /\ cMetrics = [n \in CNames |-> NewMetrics]
    /\ execution_order = << >>
    /\ chainCall = IdleCall

\* (mutant of SortByPriority: the ready queue is taken first in, first out)
SortOmitted(q, prio) == q

\* queue.sort(key=priority.value): a stable sort on the priority values 1..4
SortByPriority(q, prio) ==
    LET sel(p) == SelectSeq(q, LAMBDA n : prio[n] = p)
    IN sel(1) \o sel(2) \o sel(3) \o sel(4)

\* lines 210-220: graph[d] lists the dependents of d in registration order,
\* in_degree[n] counts the registered dependencies of n
ChainGraph(reg, deps) ==
    [d \in SeqSet(reg) |-> SelectSeq(reg, LAMBDA n : d \in deps[n])]

InDegree(reg, deps) ==
    [n \in SeqSet(reg) |-> Cardinality(deps[n] \cap SeqSet(reg))]

\* lines 226-235: Kahn's algorithm
RECURSIVE Kahn(_, _, _, _, _)
Kahn(queue, indeg, result, graph, prio) ==
    IF queue = << >> THEN result
    ELSE LET sorted == SortByPriority(queue, prio)
             node == Head(sorted)
             nbrs == graph[node]
             indeg2 == [n \in DOMAIN indeg |->
                          IF n \in SeqSet(nbrs) THEN indeg[n] - 1 ELSE indeg[n]]
             ready == SelectSeq(nbrs, LAMBDA n : indeg2[n] = 0)
         IN Kahn(Tail(sorted) \o ready, indeg2, Append(result, node), graph, prio)

\* lines 223-235: the agents placed by the sort
Placed(reg, deps, prio) ==
    Kahn(SelectSeq(reg, LAMBDA n : InDegree(reg, deps)[n] = 0),
         InDegree(reg, deps), << >>, ChainGraph(reg, deps), prio)

\* (mutant of ResolveFails: the check is left out)
ResolveNeverFails(reg, deps, prio) == FALSE

\* line 237: the circular-dependency check
ResolveFails(reg, deps, prio) == Len(Placed(reg, deps, prio)) # Len(reg)

\* ---- AgentChain.register, lines 193-197 (the agents are registered in the
\* order of ChainNames, so the duplicate-name error does not arise, and before
\* the chain is first executed)
ChainRegister(n, p, en) ==
    /\ chainCall.pc # "running"
    /\ \A m \in CNames : cState[m] = "idle"
    /\ Len(chainReg) < Len(ChainNames)
    /\ n = ChainNames[Len(chainReg) + 1]
    /\ chainReg' = Append(chainReg, n)
    /\ cPriority' = [cPriority EXCEPT ![n] = p]
    /\ cEnabled' = [cEnabled EXCEPT ![n] = en]
    /\ chainCall' = IdleCall
    /\ UNCHANGED <<cDeps, cState, cMetrics, execution_order>>

\* Agent.register_dependency(d) on agent n, lines 108-109
RegisterDependency(n, d) ==
    /\ chainCall.pc # "running"
    /\ <<n, d>> \in DepChoices
    /\ d \notin cDeps[n]
    /\ cDeps' = [cDeps EXCEPT ![n] = @ \cup {d}]
    /\ chainCall' = IdleCall
    /\ UNCHANGED <<chainReg, cPriority, cEnabled, cState, cMetrics, execution_order>>

\* (mutant of ChainAdvance: the enabled flag is not looked at)
ChainAdvanceAll(call, todo) ==
    IF todo = << >>
    THEN [call EXCEPT !.pc = "returned", !.todo = << >>, !.cur = "none"]
    ELSE [call EXCEPT !.pc = "running", !.cur = Head(todo), !.todo = Tail(todo)]

\* lines 262-270: the loop passes the disabled agents and suspends in the run()
\* of the next enabled one, or ends and returns the results
ChainAdvance(call, todo) ==
    LET rest == SelectSeq(todo, LAMBDA n : cEnabled[n])
        skipTo == IF rest = << >> THEN Len(todo) + 1
                  ELSE CHOOSE i \in 1..Len(todo) :
                         /\ todo[i] = Head(rest)
                         /\ \A j \in 1..(i - 1) : ~cEnabled[todo[j]]
    IN IF rest = << >>
       THEN [call EXCEPT !.pc = "returned", !.todo = << >>, !.cur = "none"]
       ELSE [call EXCEPT !.pc = "running", !.cur = Head(rest),
                         !.todo = SubSeq(todo, skipTo + 1, Len(todo))]

\* the runs finished so far: each one counted one success or one failure
RECURSIVE SumRuns(_)
SumRuns(S) ==
    IF S = {} THEN 0
    ELSE LET n == CHOOSE m \in S : TRUE
         IN cMetrics[n].successful_runs + cMetrics[n].failed_runs + SumRuns(S \ {n})

ChainRunsSoFar == SumRuns(CNames)

\* execute(agent_name) is called: lines 251-270
ChainExecute(a) ==
    /\ chainCall.pc # "running"
    /\ IF ResolveFails(chainReg, cDeps, cPriority)
       THEN \* raise ValueError("Circular dependency detected in agent chain")
            /\ chainCall' = [IdleCall EXCEPT !.pc = "raised", !.arg = a,
                                             !.exc = "CircularDependency"]
            /\ UNCHANGED <<execution_order, cState>>
       ELSE /\ execution_order' = Placed(chainReg, cDeps, cPriority)
            /\ IF a # "none" /\ a \notin SeqSet(chainReg)
               THEN \* return []
                    /\ chainCall' = [IdleCall EXCEPT !.pc = "returned", !.arg = a]
                    /\ UNCHANGED cState
               ELSE LET todo == IF a # "none" THEN <<a>>
                                ELSE Placed(chainReg, cDeps, cPriority)
                        call == ChainAdvance([IdleCall EXCEPT !.arg = a], todo)
                    IN /\ ChainRunsSoFar + Len(SelectSeq(todo, LAMBDA n : cEnabled[n]))
                            <= MaxChainRuns
                       /\ chainCall' = call
                       /\ cState' = IF call.pc = "running"
                                    THEN [cState EXCEPT ![call.cur] = "running"]
                                    ELSE cState
    /\ UNCHANGED <<chainReg, cPriority, cEnabled, cDeps, cMetrics>>

\* lines 276-295: the agent's record after its run() ended with `outcome`
ChainMetricsAfter(m, outcome) ==
    CASE outcome = "ok" ->
           [m EXCEPT !.total_runs = @ + 1, !.successful_runs = @ + 1]
      [] outcome = "fail" ->
           [m EXCEPT !.total_runs = @ + 1, !.failed_runs = @ + 1, !.last_error = "error"]
      [] OTHER ->
           [m EXCEPT !.failed_runs = @ + 1, !.last_error = "error"]

ChainStateAfter(outcome) == IF outcome = "ok" THEN "completed" ELSE "failed"

\* line 274: a result is appended only when run() returned one
ChainResultsAfter(results, outcome) ==
    IF outcome = "raise" THEN results ELSE Append(results, outcome)

\* (a loop that an exception from run() ends)
RestAfterAbort(todo, outcome) == IF outcome = "raise" THEN << >> ELSE todo

\* lines 272-295: the try / except is inside the for loop, which goes on with
\* the agents left whatever the run's outcome
RestAfter(todo, outcome) == todo

\* the awaited run() returns or raises: lines 273-295, then the loop goes on
ChainFinishRun(outcome) ==
    /\ chainCall.pc = "running"
    /\ LET n == chainCall.cur
           st == [cState EXCEPT ![n] = ChainStateAfter(outcome)]
           call == ChainAdvance([chainCall EXCEPT
                                   !.results = ChainResultsAfter(@, outcome),
                                   !.done = Append(@, n)],
                                RestAfter(chainCall.todo, outcome))
       IN /\ cMetrics' = [cMetrics EXCEPT ![n] = ChainMetricsAfter(@, outcome)]
          /\ chainCall' = call
          /\ cState' = IF call.pc = "running" THEN [st EXCEPT ![call.cur] = "running"]
                       ELSE st
    /\ UNCHANGED <<chainReg, cPriority, cEnabled, cDeps, execution_order>>

NextChain ==
    \/ /\ \E n \in CNames, p \in Priorities, en \in BOOLEAN : ChainRegister(n, p, en)
       /\ UNCHANGED <<orchVars, loopVars, monVars, evVars, cbVars, cacheVars, healVars, ctlVars, flagVars, startVars, healthVars>>
    \/ /\ \E n \in CNames, d \in CNames : RegisterDependency(n, d)
       /\ UNCHANGED <<orchVars, loopVars, monVars, evVars, cbVars, cacheVars, healVars, ctlVars, flagVars, startVars, healthVars>>
    \/ /\ \E a \in ExecArgs : ChainExecute(a)
       /\ UNCHANGED <<orchVars, loopVars, monVars, evVars, cbVars, cacheVars, healVars, ctlVars, flagVars, startVars, healthVars>>
    \/ /\ \E o \in Outcomes : ChainFinishRun(o)
       /\ UNCHANGED <<orchVars, loopVars, monVars, evVars, cbVars, cacheVars, healVars, ctlVars, flagVars, startVars, healthVars>>

\* ============================================================== AgentMonitor
InitMonitor ==
    /\ agent_health = EmptyFn
    /\ events = << >>
    /\ failsSince = [n \in Names |-> 0]
    /\ monLast = [op |-> "none", name |-> "none", success |-> FALSE, healthy_before |-> TRUE]

NewHealth ==
    [is_healthy |-> TRUE, last_run |-> "none", last_error |-> "none",
     consecutive_failures |-> 0]

\* record_event, lines 100-110: append, then keep the last max_event_history
\* events (a slice events[-0:] keeps them all)
RecordedWith(cap, evs, e) ==
    LET all == Append(evs, e)
    IN IF Len(all) > cap
       THEN IF cap = 0 THEN all
            ELSE SubSeq(all, Len(all) - cap + 1, Len(all))
       ELSE all

Recorded(evs, e) == RecordedWith(max_event_history, evs, e)

RecordEvent(ty, n) ==
    /\ events' = Recorded(events, [event_type |-> ty, agent_name |-> n, failures |-> 0])
    /\ monLast' = [op |-> "record_event", name |-> n, success |-> FALSE,
                   healthy_before |-> TRUE]
    /\ UNCHANGED <<agent_health, failsSince>>

\* (a test that holds only at the failure that reaches the threshold)
AtThresholdOnce(cf) == cf = error_threshold

\* (mutant of AtThreshold: the agent turns unhealthy one failure late)
AtThresholdLate(cf) == cf > error_threshold

\* line 141: the threshold test
AtThreshold(cf) == cf >= error_threshold

\* lines 130-142: the health record after one update
HealthAfter(h, success, error) ==
    IF success
    THEN [h EXCEPT !.last_run = "set", !.consecutive_failures = 0, !.is_healthy = TRUE,
                   !.last_error = "none"]
    ELSE [h EXCEPT !.last_run = "set", !.consecutive_failures = @ + 1,
                   !.last_error = error,
                   !.is_healthy = IF AtThreshold(h.consecutive_failures + 1)
                                  THEN FALSE ELSE h.is_healthy]

\* (mutant of FailedEvent: the event does not carry the failure count)
FailedEventWithoutCount(n, cf) ==
    [event_type |-> "agent_failed", agent_name |-> n, failures |-> 0]

\* lines 147-152: the AGENT_FAILED event, its metadata holding the count
FailedEvent(n, cf) ==
    [event_type |-> "agent_failed", agent_name |-> n, failures |-> cf]

\* update_agent_health(n, success, error), lines 127-152
UpdateAgentHealth(n, success, error) ==
    LET old == IF n \in DOMAIN agent_health THEN agent_health[n] ELSE NewHealth
        new == HealthAfter(old, success, error)
    IN /\ ~success => old.consecutive_failures < MaxFailures
       /\ agent_health' = Put(agent_health, n, new)
       /\ events' = IF ~success /\ AtThreshold(new.consecutive_failures)
                    THEN Recorded(events, FailedEvent(n, new.consecutive_failures))
                    ELSE events
       /\ failsSince' = [failsSince EXCEPT ![n] = IF success THEN 0 ELSE @ + 1]
       /\ monLast' = [op |-> "update_agent_health", name |-> n, success |-> success,
                      healthy_before |-> old.is_healthy]

NextMonitor ==
    \/ /\ \E n \in Names, ok \in BOOLEAN, e \in {"none", "error"} :
            UpdateAgentHealth(n, ok, e)
       /\ UNCHANGED <<orchVars, loopVars, chainVars, evVars, cbVars, cacheVars, healVars, ctlVars, flagVars, startVars, healthVars>>
    \/ /\ \E ty \in {"agent_started", "agent_failed"}, n \in Names : RecordEvent(ty, n)
       /\ UNCHANGED <<orchVars, loopVars, chainVars, evVars, cbVars, cacheVars, healVars, ctlVars, flagVars, startVars, healthVars>>

\* ------------------------------------- AgentMonitor: events and get_events
\* The monitor is constructed with any cap in 0..max_event_history; every
\* recorded event carries its number in recording order (its timestamp).
EventTypes == {"agent_started", "agent_failed"}

NoQuery == [op |-> "none", agent_name |-> "none", event_type |-> "none", limit |-> 0,
            result |-> << >>]

NoMonitor == -1      \* evCap before the monitor is constructed

InitEvents ==
    /\ evCap = NoMonitor
    /\ evBuf = << >>
    /\ evCount = 0
    /\ evQuery = NoQuery

\* AgentMonitor(max_event_history = cap), lines 73-83
NewMonitor(cap) ==
    /\ evCap = NoMonitor
    /\ evCap' = cap
    /\ UNCHANGED <<evBuf, evCount, evQuery>>

\* record_event(ty, n), lines 99-110
RecordInto(ty, n) ==
    /\ evCap # NoMonitor
    /\ evCount < MaxRecorded
    /\ evCount' = evCount + 1
    /\ evBuf' = RecordedWith(evCap, evBuf,
                             [event_type |-> ty, agent_name |-> n, seq |-> evCount + 1])
    /\ evQuery' = NoQuery
    /\ UNCHANGED evCap

\* lines 202-205: the filters ("none" = None, which is falsy)
Matches(e, n, ty) ==
    /\ n = "none" \/ e.agent_name = n
    /\ ty = "none" \/ e.event_type = ty

\* lines 199-210: the loop over reversed(self.events) from index i down,
\* which appends a match and only then compares len(results) with limit
RECURSIVE ScanEvents(_, _, _, _, _, _)
ScanEvents(evs, i, n, ty, limit, results) ==
    IF i = 0 THEN results
    ELSE IF ~Matches(evs[i], n, ty) THEN ScanEvents(evs, i - 1, n, ty, limit, results)
    ELSE LET more == Append(results, evs[i])
         IN IF Len(more) >= limit THEN more
            ELSE ScanEvents(evs, i - 1, n, ty, limit, more)

get_events(evs, n, ty, limit) == ScanEvents(evs, Len(evs), n, ty, limit, << >>)

\* get_events(n, ty, limit) is called
GetEvents(n, ty, limit) ==
    /\ evCap # NoMonitor
    /\ evQuery' = [op |-> "get_events", agent_name |-> n, event_type |-> ty,
                   limit |-> limit, result |-> get_events(evBuf, n, ty, limit)]
    /\ UNCHANGED <<evCap, evBuf, evCount>>

NextEvents ==
    \/ /\ \E cap \in 0..max_event_history : NewMonitor(cap)
       /\ UNCHANGED <<orchVars, loopVars, chainVars, monVars, cbVars, cacheVars, healVars, ctlVars, flagVars, startVars, healthVars>>
    \/ /\ \E ty \in EventTypes, n \in Names : RecordInto(ty, n)
       /\ UNCHANGED <<orchVars, loopVars, chainVars, monVars, cbVars, cacheVars, healVars, ctlVars, flagVars, startVars, healthVars>>
    \/ /\ \E n \in Names \cup {"none"}, ty \in EventTypes \cup {"none"}, limit \in 0..MaxLimit :
            GetEvents(n, ty, limit)
       /\ UNCHANGED <<orchVars, loopVars, chainVars, monVars, cbVars, cacheVars, healVars, ctlVars, flagVars, startVars, healthVars>>

\* ============================================================ CircuitBreaker
\* The clock is read where the code reads it; its values are positive (no clock
\* the code reads yields exactly 0).
InitBreaker ==
    /\ breaker = [failure_count |-> 0, last_failure_time |-> NoTime, is_open |-> FALSE]
    /\ clock = 1
    /\ cbFails = 0
    /\ cbLast = [op |-> "none", result |-> TRUE, open_before |-> FALSE, after_probe |-> FALSE]

\* (a record_success that resets the count and leaves the circuit as it is)
record_success_count_only(b) == [b EXCEPT !.failure_count = 0]

\* record_success, lines 80-81
record_success(b) == [b EXCEPT !.failure_count = 0, !.is_open = FALSE]

\* (mutant of Trips: the circuit opens one failure late)
TripsLate(count) == count > failure_threshold

\* line 93: the threshold test
Trips(count) == count >= failure_threshold

\* record_failure, lines 85-94
record_failure(b, t) ==
    [b EXCEPT !.failure_count = @ + 1,
              !.last_failure_time = t,
              !.is_open = IF Trips(b.failure_count + 1) THEN TRUE ELSE b.is_open]

\* (mutant of Elapsed: recovery needs more than recovery_timeout)
ElapsedLate(b, t) ==
    /\ b.last_failure_time # NoTime
    /\ b.last_failure_time # 0
    /\ t - b.last_failure_time > recovery_timeout

\* line 112: the recovery test on an open circuit (line 103: a last_failure_time
\* of None or 0 is falsy and skips it)
Elapsed(b, t) ==
    /\ b.last_failure_time # NoTime
    /\ b.last_failure_time # 0
    /\ t - b.last_failure_time >= recovery_timeout

\* can_proceed, lines 99-118: the value returned and the breaker afterwards
can_proceed_value(b, t) ==
    IF ~b.is_open THEN TRUE ELSE Elapsed(b, t)

can_proceed_state(b, t) ==
    IF b.is_open /\ Elapsed(b, t)
    THEN [b EXCEPT !.is_open = FALSE, !.failure_count = 0]
    ELSE b

RecordSuccess ==
    /\ breaker' = record_success(breaker)
    /\ cbFails' = 0
    /\ cbLast' = [op |-> "record_success", result |-> TRUE, open_before |-> breaker.is_open,
                  after_probe |-> FALSE]
    /\ UNCHANGED clock

RecordFailure ==
    /\ breaker.failure_count <= failure_threshold
    /\ breaker' = record_failure(breaker, clock)
    /\ cbFails' = cbFails + 1
    /\ cbLast' = [op |-> "record_failure", result |-> TRUE, open_before |-> breaker.is_open,
                  after_probe |-> cbLast.op = "can_proceed" /\ cbLast.open_before
                                  /\ cbLast.result]
    /\ UNCHANGED clock

CanProceed ==
    /\ breaker' = can_proceed_state(breaker, clock)
    /\ cbFails' = IF breaker.is_open /\ can_proceed_value(breaker, clock) THEN 0 ELSE cbFails
    /\ cbLast' = [op |-> "can_proceed", result |-> can_proceed_value(breaker, clock),
                  open_before |-> breaker.is_open, after_probe |-> FALSE]
    /\ UNCHANGED clock

ClockTick ==
    /\ clock < MaxClock
    /\ clock' = clock + 1
    /\ cbLast' = [op |-> "none", result |-> TRUE, open_before |-> FALSE, after_probe |-> FALSE]
    /\ UNCHANGED <<breaker, cbFails>>

NextBreaker ==
    \/ RecordSuccess /\ UNCHANGED <<orchVars, loopVars, chainVars, monVars, evVars, cacheVars, healVars, ctlVars, flagVars, startVars, healthVars>>
    \/ RecordFailure /\ UNCHANGED <<orchVars, loopVars, chainVars, monVars, evVars, cacheVars, healVars, ctlVars, flagVars, startVars, healthVars>>
    \/ CanProceed /\ UNCHANGED <<orchVars, loopVars, chainVars, monVars, evVars, cacheVars, healVars, ctlVars, flagVars, startVars, healthVars>>
    \/ ClockTick /\ UNCHANGED <<orchVars, loopVars, chainVars, monVars, evVars, cacheVars, healVars, ctlVars, flagVars, startVars, healthVars>>

\* ========================================================== HealthCheckCache
\* src/core/cache.py.  _cache is a dict: cacheKeys holds its keys in insertion
\* order (the order min() and keys() iterate in) and cacheEntry its values.
\* Strings are sequences of characters.
Services == {<<"r">>, <<"s">>}      \* service names given to the cache
CacheArgs == {<<<<"r">>, 1>>, <<<<"r">>, 2>>, <<<<"s">>, 1>>}  \* (service, indexer_id) given to it

NoEntry == [indexer_name |-> << >>, success |-> FALSE, error |-> "none", timestamp |-> NoTime]

DigitChars == <<"0", "1", "2", "3", "4", "5", "6", "7", "8", "9">>

\* str(indexer_id) for a non-negative int
RECURSIVE IntStr(_)
IntStr(i) ==
    IF i < 10 THEN <<DigitChars[i + 1]>>
    ELSE Append(IntStr(i \div 10), DigitChars[(i % 10) + 1])

\* (mutant of make_key: the indexer id is left out of the key)
make_key_service_only(service, indexer_id) == service \o <<":">>

\* _make_key, line 61: f"{service}:{indexer_id}"
make_key(service, indexer_id) == service \o <<":">> \o IntStr(indexer_id)

\* (indexer_name, success, error) given to the i-th set call: every call writes
\* values of its own, every other one a failed check
Payload(i) ==
    [indexer_name |-> <<"n">> \o IntStr(i), success |-> i % 2 = 1,
     error |-> IF i % 2 = 1 THEN "none" ELSE "timeout"]

\* str.startswith
StartsWith(str, prefix) ==
    /\ Len(str) >= Len(prefix)
    /\ SubSeq(str, 1, Len(prefix)) = prefix

\* CacheEntry.age_seconds and is_fresh, lines 29-35
age_seconds(entry, t) == t - entry.timestamp

\* (mutant of is_fresh: an entry of age ttl_seconds still counts as fresh)
is_fresh_late(entry, t) == age_seconds(entry, t) <= ttl_seconds

is_fresh(entry, t) == age_seconds(entry, t) < ttl_seconds

NoGet == [op |-> "none", args |-> << >>, key |-> << >>, result |-> NoEntry]

Without(keys, k) == SelectSeq(keys, LAMBDA x : x # k)

InitCache ==
    /\ cacheKeys = << >>
    /\ cacheEntry = EmptyFn
    /\ hit_count = 0
    /\ miss_count = 0
    /\ cacheNow = 0
    /\ lastSet = EmptyFn
    /\ setCount = 0
    /\ cacheLast = NoGet

\* get, lines 73-88
Get(service, indexer_id) ==
    LET key == make_key(service, indexer_id)
        found == key \in DOMAIN cacheEntry
        fresh == found /\ is_fresh(cacheEntry[key], cacheNow)
    IN /\ hit_count + miss_count < MaxGets
       /\ cacheKeys' = IF found /\ ~fresh THEN Without(cacheKeys, key) ELSE cacheKeys
       /\ cacheEntry' = IF found /\ ~fresh THEN Del(cacheEntry, key) ELSE cacheEntry
       /\ hit_count' = IF fresh THEN hit_count + 1 ELSE hit_count
       /\ miss_count' = IF fresh THEN miss_count ELSE miss_count + 1
       /\ cacheLast' = [op |-> "get", args |-> <<service, indexer_id>>, key |-> key,
                        result |-> IF fresh THEN cacheEntry[key] ELSE NoEntry]
       /\ UNCHANGED <<cacheNow, lastSet, setCount>>

\* (mutant of OldestKey: the entry written last is evicted)
NewestKey(keys, entries) ==
    LET i == CHOOSE a \in 1..Len(keys) :
                 \A b \in 1..Len(keys) :
                     entries[keys[a]].timestamp >= entries[keys[b]].timestamp
    IN keys[i]

\* lines 104-107: min(self._cache.keys(), key=timestamp), the first key in
\* iteration order among those with the smallest timestamp
OldestKey(keys, entries) ==
    LET i == CHOOSE a \in 1..Len(keys) :
                 \A b \in 1..Len(keys) :
                     /\ entries[keys[a]].timestamp <= entries[keys[b]].timestamp
                     /\ entries[keys[b]].timestamp = entries[keys[a]].timestamp => a <= b
    IN keys[i]

\* line 102: the capacity test
AtCapacity(keys) == Len(keys) >= max_entries

\* set, lines 102-119
Set(service, indexer_id) ==
    LET key == make_key(service, indexer_id)
        evict == AtCapacity(cacheKeys)
        keys1 == IF evict THEN Without(cacheKeys, OldestKey(cacheKeys, cacheEntry))
                 ELSE cacheKeys
        ent1 == IF evict THEN Del(cacheEntry, OldestKey(cacheKeys, cacheEntry))
                ELSE cacheEntry
        payload == Payload(setCount + 1)
        entry == [indexer_name |-> payload.indexer_name, success |-> payload.success,
                  error |-> payload.error, timestamp |-> cacheNow]
    IN /\ setCount < MaxSets
       /\ evict => cacheKeys # << >>
       /\ cacheKeys' = IF key \in DOMAIN ent1 THEN keys1 ELSE Append(keys1, key)
       /\ cacheEntry' = Put(ent1, key, entry)
       /\ lastSet' = Put(lastSet, <<service, indexer_id>>, entry)
       /\ setCount' = setCount + 1
       /\ cacheLast' = NoGet
       /\ UNCHANGED <<hit_count, miss_count, cacheNow>>

\* invalidate, lines 129-132
Invalidate(service, indexer_id) ==
    LET key == make_key(service, indexer_id)
    IN /\ cacheKeys' = Without(cacheKeys, key)
       /\ cacheEntry' = Del(cacheEntry, key)
       /\ cacheLast' = NoGet
       /\ UNCHANGED <<hit_count, miss_count, cacheNow, lastSet, setCount>>

\* invalidate_service, lines 140-143
InvalidateService(service) ==
    LET gone == {k \in DOMAIN cacheEntry : StartsWith(k, service \o <<":">>)}
    IN /\ cacheKeys' = SelectSeq(cacheKeys, LAMBDA x : x \notin gone)
       /\ cacheEntry' = [k \in DOMAIN cacheEntry \ gone |-> cacheEntry[k]]
       /\ cacheLast' = NoGet
       /\ UNCHANGED <<hit_count, miss_count, cacheNow, lastSet, setCount>>

\* clear, line 147
Clear ==
    /\ cacheKeys' = << >>
    /\ cacheEntry' = EmptyFn
    /\ cacheLast' = NoGet
    /\ UNCHANGED <<hit_count, miss_count, cacheNow, lastSet, setCount>>

\* utc_now() between two calls
CacheTick ==
    /\ cacheNow < MaxCacheClock
    /\ cacheNow' = cacheNow + 1
    /\ cacheLast' = NoGet
    /\ UNCHANGED <<cacheKeys, cacheEntry, hit_count, miss_count, lastSet, setCount>>

NextCache ==
    \/ /\ \E a \in CacheArgs : Get(a[1], a[2])
       /\ UNCHANGED <<orchVars, loopVars, chainVars, monVars, evVars, cbVars, healVars, ctlVars, flagVars, startVars, healthVars>>
    \/ /\ \E a \in CacheArgs : Set(a[1], a[2])
       /\ UNCHANGED <<orchVars, loopVars, chainVars, monVars, evVars, cbVars, healVars, ctlVars, flagVars, startVars, healthVars>>
    \/ /\ \E a \in CacheArgs : Invalidate(a[1], a[2])
       /\ UNCHANGED <<orchVars, loopVars, chainVars, monVars, evVars, cbVars, healVars, ctlVars, flagVars, startVars, healthVars>>
    \/ /\ \E sv \in Services : InvalidateService(sv)
       /\ UNCHANGED <<orchVars, loopVars, chainVars, monVars, evVars, cbVars, healVars, ctlVars, flagVars, startVars, healthVars>>
    \/ Clear /\ UNCHANGED <<orchVars, loopVars, chainVars, monVars, evVars, cbVars, healVars, ctlVars, flagVars, startVars, healthVars>>
    \/ CacheTick /\ UNCHANGED <<orchVars, loopVars, chainVars, monVars, evVars, cbVars, healVars, ctlVars, flagVars, startVars, healthVars>>

\* ====================================================== IndexerAutoHealAgent
\* src/agents/indexer_autoheal_agent.py, run().  The services, the control
\* agent and the database session are collaborators: each call to one of them
\* either returns or raises, and the model draws the outcome.  session.add and
\* session.rollback are taken to return.
HealServices == <<"radarr", "sonarr">>      \* lines 55-58, in this order

IndexerLists == {[i \in 1..k |-> i] : k \in 0..MaxIndexers}  \* what get_indexers returns

HealKeys == {<<HealServices[i], id>> : i \in 1..Len(HealServices), id \in 1..MaxIndexers}

\* what earlier cycles left in the database: nothing, or a record
EarlierRecords ==
    {<< >>, <<[service |-> "radarr", indexer_id |-> 1, success |-> TRUE]>>}

InitHeal ==
    /\ healPc = "idle"
    /\ healSvc = 1
    /\ healTodo = << >>
    /\ staged = << >>
    /\ persisted = << >>
    /\ remoteEnabled = [k \in HealKeys |-> TRUE]
    /\ healLog = << >>

\* a call in the log; for get_indexers, id is the number of indexers returned
Call(name, service, id, ok) == [call |-> name, service |-> service, id |-> id, ok |-> ok]

\* the loop header of line 55 after the service at position svc is finished:
\* the next service, or the commit of line 116
AfterService(svc) == IF svc < Len(HealServices) THEN "fetch" ELSE "commit"

\* the loop header of line 67 with todo left to test
AfterIndexer(svc, todo) == IF todo = << >> THEN AfterService(svc) ELSE "test"

\* (mutant of AfterFetchFailure: a failed fetch ends the service loop)
FetchFailureEndsLoop(svc) == "commit"

\* lines 61-63: except ... continue
AfterFetchFailure(svc) == AfterService(svc)

\* (mutant of AfterDisable: a failed disable ends the service loop)
DisableFailureEndsLoop(ok, svc, todo) == IF ok THEN AfterIndexer(svc, todo) ELSE "commit"

\* lines 106-113: the disable call returned or raised; the loop goes on
AfterDisable(ok, svc, todo) == AfterIndexer(svc, todo)

\* (mutant of StagedRecord: every record says the test passed)
StagedAsPassed(service, id, passed) ==
    [service |-> service, indexer_id |-> id, success |-> TRUE]

\* lines 76-84 and 92-100: the IndexerHealth record added to the session
StagedRecord(service, id, passed) ==
    [service |-> service, indexer_id |-> id, success |-> passed]

\* (mutant of PersistedAfter: a failed commit leaves the records in the database)
PersistedAnyway(ok, db, records) == db \o records

\* lines 117 and 125: the database after commit() returned, or raised and
\* rollback() undid the unit
PersistedAfter(ok, db, records) == IF ok THEN db \o records ELSE db

\* run() is called: lines 47-53 (one cycle is followed)
HealStart(earlier) ==
    /\ healPc = "idle"
    /\ healPc' = "fetch"
    /\ healSvc' = 1
    /\ healTodo' = << >>
    /\ staged' = << >>
    /\ healLog' = << >>
    /\ persisted' = earlier   \* what earlier cycles left in the database
    /\ UNCHANGED remoteEnabled

\* lines 59-63: await service.get_indexers()
HealFetch(ok, indexers) ==
    /\ healPc = "fetch"
    /\ ~ok => indexers = << >>
    /\ healLog' = Append(healLog, Call("get_indexers", HealServices[healSvc],
                                        IF ok THEN Len(indexers) ELSE 0, ok))
    /\ IF ok
       THEN /\ healTodo' = indexers
            /\ healPc' = AfterIndexer(healSvc, indexers)
            /\ healSvc' = IF indexers = << >> /\ healSvc < Len(HealServices)
                          THEN healSvc + 1 ELSE healSvc
       ELSE /\ healTodo' = << >>
            /\ healPc' = AfterFetchFailure(healSvc)
            /\ healSvc' = IF healSvc < Len(HealServices) THEN healSvc + 1 ELSE healSvc
    /\ UNCHANGED <<staged, persisted, remoteEnabled>>

\* lines 72-103: await service.test_indexer(id), then session.add of the record
HealTest(passed) ==
    LET id == Head(healTodo)
        service == HealServices[healSvc]
    IN /\ healPc = "test"
       /\ healLog' = Append(healLog, Call("test_indexer", service, id, passed))
       /\ staged' = Append(staged, StagedRecord(service, id, passed))
       /\ IF passed
          THEN /\ healTodo' = Tail(healTodo)
               /\ healPc' = AfterIndexer(healSvc, Tail(healTodo))
               /\ healSvc' = IF Tail(healTodo) = << >> /\ healSvc < Len(HealServices)
                             THEN healSvc + 1 ELSE healSvc
          ELSE /\ healPc' = "disable"
               /\ UNCHANGED <<healTodo, healSvc>>
       /\ UNCHANGED <<persisted, remoteEnabled>>

\* lines 106-113: await self.control.disable_indexer(service, idx)
HealDisable(ok) ==
    LET id == Head(healTodo)
        service == HealServices[healSvc]
    IN /\ healPc = "disable"
       /\ healLog' = Append(healLog, Call("disable_indexer", service, id, ok))
       /\ remoteEnabled' = IF ok THEN [remoteEnabled EXCEPT ![<<service, id>>] = FALSE]
                           ELSE remoteEnabled
       /\ healTodo' = Tail(healTodo)
       /\ healPc' = AfterDisable(ok, healSvc, Tail(healTodo))
       /\ healSvc' = IF Tail(healTodo) = << >> /\ healSvc < Len(HealServices)
                     THEN healSvc + 1 ELSE healSvc
       /\ UNCHANGED <<staged, persisted>>

\* lines 116-125: await session.commit(), and session.rollback() when it raises
HealCommit(ok) ==
    /\ healPc = "commit"
    /\ healLog' = IF ok THEN Append(healLog, Call("commit", "none", 0, TRUE))
                  ELSE healLog \o <<Call("commit", "none", 0, FALSE),
                                    Call("rollback", "none", 0, TRUE)>>
    /\ persisted' = PersistedAfter(ok, persisted, staged)
    /\ staged' = << >>
    /\ healPc' = "done"
    /\ UNCHANGED <<healSvc, healTodo, remoteEnabled>>

NextHeal ==
    \/ /\ \E e \in EarlierRecords : HealStart(e)
       /\ UNCHANGED <<orchVars, loopVars, chainVars, monVars, evVars, cbVars, cacheVars, ctlVars, flagVars, startVars, healthVars>>
    \/ /\ \E ok \in BOOLEAN, l \in IndexerLists : HealFetch(ok, l)
       /\ UNCHANGED <<orchVars, loopVars, chainVars, monVars, evVars, cbVars, cacheVars, ctlVars, flagVars, startVars, healthVars>>
    \/ /\ \E passed \in BOOLEAN : HealTest(passed)
       /\ UNCHANGED <<orchVars, loopVars, chainVars, monVars, evVars, cbVars, cacheVars, ctlVars, flagVars, startVars, healthVars>>
    \/ /\ \E ok \in BOOLEAN : HealDisable(ok)
       /\ UNCHANGED <<orchVars, loopVars, chainVars, monVars, evVars, cbVars, cacheVars, ctlVars, flagVars, startVars, healthVars>>
    \/ /\ \E ok \in BOOLEAN : HealCommit(ok)
       /\ UNCHANGED <<orchVars, loopVars, chainVars, monVars, evVars, cbVars, cacheVars, ctlVars, flagVars, startVars, healthVars>>

\* ======================================================= IndexerHealthAgent
\* src/agents/indexer_health_agent.py, run() and _check_service().  The
\* services are collaborators: get_indexers() returns a list of indexer
\* dicts or raises, test_indexer() returns or raises, and the model draws the
\* outcome.  A service that is None (as in the tests) raises AttributeError
\* inside the try of line 96, which is the fetch failing.
HealthServices == <<"Radarr", "Sonarr">>     \* lines 48-49, in this order

NoHealthResult == [success |-> FALSE, error |-> << >>, metrics |-> << >>]

IdleHealth ==
    [pc |-> "idle",        \* idle, fetch, test, returned, raised
     svc |-> 1,            \* the position in HealthServices of the service checked
     todo |-> << >>,       \* the indexers of the for loop of line 105 still to test
     log |-> << >>,        \* history: the calls made on the services, in order
     fetched |-> << >>,    \* what _check_service returned, one entry per service
     result |-> NoHealthResult]

InitHealth == health = IdleHealth

\* lines 65-69 and 75: the error details, joined in the order appended
HealthErrors(fetched) ==
    (IF fetched[1] THEN << >> ELSE <<"Radarr check failed">>) \o
    (IF fetched[2] THEN << >> ELSE <<"Sonarr check failed">>)

\* (a result that counts a failed test as a failure of the cycle)
HealthSuccessCountsTests(fetched, log) ==
    /\ fetched[1] /\ fetched[2]
    /\ \A i \in 1..Len(log) : log[i].ok

\* line 51: success = radarr_success and sonarr_success
HealthSuccess(fetched, log) == fetched[1] /\ fetched[2]

\* lines 51-80: the AgentResult returned
HealthResult(fetched, log) ==
    [success |-> HealthSuccess(fetched, log),
     error |-> IF HealthSuccess(fetched, log) THEN << >> ELSE HealthErrors(fetched),
     metrics |-> fetched]

\* _check_service returned ok for the service at position health.svc, after
\* the calls in log: run() goes to the next service (line 49) or returns
\* (lines 51-80)
ServiceChecked(ok, log) ==
    LET fetched == Append(health.fetched, ok)
    IN IF health.svc < Len(HealthServices)
       THEN [health EXCEPT !.pc = "fetch", !.svc = @ + 1, !.todo = << >>, !.log = log,
                           !.fetched = fetched]
       ELSE [health EXCEPT !.pc = "returned", !.todo = << >>, !.log = log,
                           !.fetched = fetched, !.result = HealthResult(fetched, log)]

\* run() is called: lines 46-48
HealthStart ==
    /\ health.pc = "idle"
    /\ health' = [IdleHealth EXCEPT !.pc = "fetch"]

\* lines 95-101: await service.get_indexers(); the except of lines 97-99
\* returns False, an empty list falls through the loop to line 118
HealthFetch(ok, indexers) ==
    LET log == Append(health.log, Call("get_indexers", HealthServices[health.svc],
                                       IF ok THEN Len(indexers) ELSE 0, ok))
    IN /\ health.pc = "fetch"
       /\ ~ok => indexers = << >>
       /\ health' = IF ok /\ indexers # << >>
                     THEN [health EXCEPT !.pc = "test", !.todo = indexers, !.log = log]
                     ELSE ServiceChecked(ok, log)

\* lines 105-115: await service.test_indexer(indexer_id); the except of lines
\* 113-115 counts the failure and the loop goes on; line 118 after the last
HealthTest(passed) ==
    LET log == Append(health.log, Call("test_indexer", HealthServices[health.svc],
                                       Head(health.todo), passed))
    IN /\ health.pc = "test"
       /\ health' = IF Tail(health.todo) # << >>
                     THEN [health EXCEPT !.todo = Tail(@), !.log = log]
                     ELSE ServiceChecked(TRUE, log)

NextHealth ==
    \/ /\ HealthStart
       /\ UNCHANGED <<orchVars, loopVars, chainVars, monVars, evVars, cbVars, cacheVars, healVars,
                      ctlVars, flagVars, startVars>>
    \/ /\ \E ok \in BOOLEAN, l \in IndexerLists : HealthFetch(ok, l)
       /\ UNCHANGED <<orchVars, loopVars, chainVars, monVars, evVars, cbVars, cacheVars, healVars,
                      ctlVars, flagVars, startVars>>
    \/ /\ \E passed \in BOOLEAN : HealthTest(passed)
       /\ UNCHANGED <<orchVars, loopVars, chainVars, monVars, evVars, cbVars, cacheVars, healVars,
                      ctlVars, flagVars, startVars>>

\* --------------------------------------------------- registration, observed
\* register_agent and AgentChain.register with the outcome of each call
\* observed in regLast.
\* (a register that reports no error for a name it already holds)
RegisterOutcomeSilent(registry, n) == "none"

\* orchestrator.py:119-120, base.py:192-193: ValueError for a name already held
RegisterOutcome(registry, n) == IF n \in registry THEN "ValueError" ELSE "none"

RegisterAgentObserved(n, scheduled, iv) ==
    /\ RegisterAgent(n, scheduled, iv)
    /\ regLast' = [on |-> "orchestrator", name |-> n, exc |-> RegisterOutcome(agents, n)]

\* AgentChain.register(agent) for an agent of any name, lines 192-196: a name
\* already in self.agents raises before anything is stored
ChainRegisterAny(n, p, en) ==
    /\ IF n \in SeqSet(chainReg)
       THEN /\ chainCall.pc # "running"
            /\ chainCall' = IdleCall
            /\ UNCHANGED <<chainReg, cPriority, cEnabled, cDeps, cState, cMetrics,
                           execution_order>>
       ELSE ChainRegister(n, p, en)
    /\ regLast' = [on |-> "chain", name |-> n, exc |-> RegisterOutcome(SeqSet(chainReg), n)]

NextRegistry ==
    \/ /\ \E n \in SchedNames, sc \in BOOLEAN, iv \in Intervals :
             RegisterAgentObserved(n, sc, iv)
       /\ UNCHANGED <<loopVars, chainVars, monVars, evVars, cbVars, cacheVars, healVars,
                      ctlVars, callFlag, startVars, healthVars>>
    \/ /\ \E n \in SchedNames : UnregisterAgent(n)
       /\ regLast' = NoRegister
       /\ UNCHANGED <<loopVars, chainVars, monVars, evVars, cbVars, cacheVars, healVars,
                      ctlVars, callFlag, startVars, healthVars>>
    \/ /\ \E n \in SchedNames : ExecuteAgent("api1", n)
       /\ regLast' = NoRegister
       /\ UNCHANGED <<loopVars, chainVars, monVars, evVars, cbVars, cacheVars, healVars,
                      ctlVars, callFlag, startVars, healthVars>>
    \/ /\ \E o \in Outcomes : FinishRun("api1", o)
       /\ regLast' = NoRegister
       /\ UNCHANGED <<loopVars, chainVars, monVars, evVars, cbVars, cacheVars, healVars,
                      ctlVars, callFlag, startVars, healthVars>>
    \/ /\ \E n \in CNames, p \in Priorities : ChainRegisterAny(n, p, TRUE)
       /\ UNCHANGED <<orchVars, loopVars, monVars, evVars, cbVars, cacheVars, healVars,
                      ctlVars, callFlag, startVars, healthVars>>

\* ------------------------------------------------------ IndexerControlAgent
\* disable_indexer(service, indexer) and enable_indexer(service, indexer).
\* Dicts are objects: ctlHeap maps the dict objects of the call in progress
\* ("indexer", the caller's; "indexer_copy", the one made at line 43 / 77) to
\* their contents, a function from the keys present to their values.
RecordKeys == {"id", "name", "enable"}

IndexerRecord(D, e) ==
    [k \in D |-> IF k = "id" THEN 1 ELSE IF k = "name" THEN "n" ELSE e]

\* the records a caller passes: every subset of the keys may be present
CallerRecords == {IndexerRecord(D, e) : D \in SUBSET RecordKeys, e \in BOOLEAN}

\* hasattr(service, "update_indexer"): a RadarrService / SonarrService, or an
\* object that offers only its HTTP client
ServiceKinds == {"wrapper", "client_only"}

ControlOps == {"disable_indexer", "enable_indexer"}

\* what the awaited update may raise
UpdateErrors == {"HTTPStatusError", "ConnectError"}

IdleControl ==
    [pc |-> "idle",        \* idle, awaiting (suspended in the update), returned, raised
     op |-> "none", service |-> "none",
     arg |-> EmptyFn,      \* history: the contents of the caller's dict at the call
     update |-> "none",    \* history: how the awaited update ended
     exc |-> "none"]       \* the exception that left the call

InitControl ==
    /\ ctlHeap = EmptyFn
    /\ ctlSent = << >>
    /\ ctlCall = IdleControl

\* a disable that writes into the caller's dict
CopyAliased(o, fresh) == o

\* lines 43, 77: dict(indexer) is a new dict object with the same items
CopyObject(o, fresh) == fresh

\* lines 44, 78: the value written under "enable"
EnableFlag(op) == op = "enable_indexer"

\* lines 45, 79: indexer_copy.get("id"), formatted into the request path
IndexerPath(rec) ==
    IF "id" \in DOMAIN rec THEN "/api/v3/indexer/1" ELSE "/api/v3/indexer/None"

\* lines 50-57, 84-91: the update call made for the record held in object o
UpdateCall(svc, h, o) ==
    IF svc = "wrapper"
    THEN [service |-> svc, via |-> "update_indexer", path |-> "none", record |-> h[o]]
    ELSE [service |-> svc, via |-> "client.put", path |-> IndexerPath(h[o]),
          record |-> h[o]]

\* the call up to its suspension in the awaited update: lines 43-57, 77-91
ControlCall(op, svc, rec) ==
    /\ ctlCall.pc # "awaiting"
    /\ Len(ctlSent) < MaxUpdates
    /\ LET target == CopyObject("indexer", "indexer_copy")
           h1 == Put([o \in {"indexer"} |-> rec], target, rec)
           h2 == [h1 EXCEPT ![target] = Put(@, "enable", EnableFlag(op))]
       IN /\ ctlHeap' = h2
          /\ ctlSent' = Append(ctlSent, UpdateCall(svc, h2, target))
    /\ ctlCall' = [IdleControl EXCEPT !.pc = "awaiting", !.op = op, !.service = svc,
                                      !.arg = rec]

\* the awaited update returns or raises: lines 58-61, 92-94 (log, re-raise)
UpdateEnds(outcome) ==
    /\ ctlCall.pc = "awaiting"
    /\ ctlCall' = IF outcome = "ok"
                  THEN [ctlCall EXCEPT !.pc = "returned", !.update = outcome]
                  ELSE [ctlCall EXCEPT !.pc = "raised", !.update = outcome,
                                       !.exc = outcome]
    /\ UNCHANGED <<ctlHeap, ctlSent>>

NextControl ==
    \/ /\ \E op \in ControlOps, svc \in ServiceKinds, rec \in CallerRecords :
             ControlCall(op, svc, rec)
       /\ UNCHANGED <<orchVars, loopVars, chainVars, monVars, evVars, cbVars, cacheVars,
                      healVars, flagVars, startVars, healthVars>>
    \/ /\ \E o \in {"ok"} \cup UpdateErrors : UpdateEnds(o)
       /\ UNCHANGED <<orchVars, loopVars, chainVars, monVars, evVars, cbVars, cacheVars,
                      healVars, flagVars, startVars, healthVars>>

\* ============================================================ specifications
Init == InitOrch /\ InitLoop /\ InitChain /\ InitMonitor /\ InitEvents /\ InitBreaker /\ InitCache /\ InitHeal
           /\ InitControl /\ InitFlags /\ InitStarts /\ InitHealth

SpecOrch == Init /\ [][NextOrch]_vars

SpecSched == Init /\ [][NextSched]_vars

SpecOnDemand == Init /\ [][NextOnDemand]_vars

SpecConcurrent == Init /\ [][NextConcurrent]_vars

SpecRegistry == Init /\ [][NextRegistry]_vars

SpecLoop == Init /\ [][NextLoop]_vars

SpecLoopLive == Init /\ [][NextLoopOne]_vars /\ LoopFairness

SpecStarts == Init /\ [][NextStarts]_vars

SpecHealth == Init /\ [][NextHealth]_vars

SpecChain == Init /\ [][NextChain]_vars

SpecMonitor == Init /\ [][NextMonitor]_vars

SpecEvents == Init /\ [][NextEvents]_vars

SpecBreaker == Init /\ [][NextBreaker]_vars

SpecCache == Init /\ [][NextCache]_vars

SpecHeal == Init /\ [][NextHeal]_vars

SpecControl == Init /\ [][NextControl]_vars

\* ==================================================================== claims
\* ---- C1.  For an agent registered with a schedule whose max_concurrent_runs
\* is 1, under every interleaving of execute_agent calls (the polling loop and
\* an on-demand trigger) at most one run of the agent is in progress; a call
\* that arrives while a run is in progress returns None, starts no run and
\* touches neither the counter nor the metrics.  The agent's registration is
\* the one the runs started under (the name was not registered anew while a
\* run of an earlier registration was in progress).
Capped(n) ==
    /\ n \in DOMAIN schedules
    /\ schedules[n].max_concurrent_runs = 1
    /\ n \notin overlap

C1_AtMostOne == \A n \in Names : Capped(n) => Cardinality(Running(n)) <= 1

C1_Rejected ==
    \A n \in Names :
      (Capped(n) /\ Running(n) # {}) =>
         /\ Running(n)' \subseteq Running(n)
         /\ \A t \in Tasks :
              (task[t].pc # "running" /\ task'[t].kind = "exec" /\ task'[t].name = n
                 /\ task'[t].pc # "idle")
              => /\ task'[t].pc = "returned"
                 /\ task'[t].skip = "at_cap"
                 /\ task'[t].result = "none"
                 /\ task'[t].ran = "none"
                 /\ active_runs' = active_runs
                 /\ metrics' = metrics

C1_MutualExclusion == [](C1_AtMostOne) /\ [][C1_Rejected]_vars

C1_Witness ==
    \E n \in Names, t \in Tasks :
        /\ Capped(n)
        /\ task["poller"].pc = "running" /\ task["poller"].name = n
        /\ task[t].pc = "returned" /\ task[t].kind = "exec" /\ task[t].name = n
        /\ task[t].skip = "at_cap"

\* ---- C2.  execute_agent and execute_scheduled_agents always hand their caller
\* a result, a list of results or None, never an exception, under any
\* interleaving of register / unregister / enable / disable with a run in
\* progress.
C2_NeverRaises == \A t \in Tasks : task[t].pc # "raised"

\* ---- C3.  When run() raises, the call that awaited it hands its caller a
\* failed AgentResult (never None, never the exception).
C3_FailedResult ==
    \A t \in Tasks :
      (task[t].kind = "exec" /\ task[t].pc \in {"returned", "raised"}
         /\ task[t].ran = "raise")
      => (task[t].pc = "returned" /\ task[t].result = "fail")

\* ---- C4.  In every reachable state the active-run counter of a registered
\* agent equals the number of execute_agent calls for it that have passed the
\* concurrency check and not yet returned.
C4_CounterExact == \A n \in agents : active_runs[n] = Cardinality(Running(n))

\* ---- C5.  For an acyclic dependency graph over the registered agents the
\* resolved order holds every registered agent once, every registered
\* dependency before its dependent, and at each position an agent of the lowest
\* priority value among those whose registered dependencies are all placed
\* (unregistered dependency names are ignored); execute() runs the enabled
\* agents in that order, one at a time, so that every enabled registered
\* dependency of an agent has finished (state and counters updated) before the
\* agent starts.
Registered == SeqSet(chainReg)

RegDeps(n) == cDeps[n] \cap Registered

RECURSIVE DepClosure(_, _)
DepClosure(S, k) ==
    IF k = 0 THEN S
    ELSE DepClosure(S \cup UNION {RegDeps(m) : m \in S}, k - 1)

HasCycle == \E n \in Registered : n \in DepClosure(RegDeps(n), Len(ChainNames))

Before(order, i) == {order[j] : j \in 1..(i - 1)}

C5_Order ==
    LET order == Placed(chainReg, cDeps, cPriority)
    IN ~HasCycle =>
         /\ Len(order) = Len(chainReg)
         /\ SeqSet(order) = Registered
         /\ \A i \in 1..Len(order) :
              /\ RegDeps(order[i]) \subseteq Before(order, i)
              /\ \A m \in Registered :
                   (m \notin Before(order, i) /\ RegDeps(m) \subseteq Before(order, i))
                   => cPriority[order[i]] <= cPriority[m]

C5_Exec ==
    (chainCall.arg = "none" /\ chainCall.pc \in {"running", "returned"}) =>
       LET enabledOrder == SelectSeq(execution_order, LAMBDA n : cEnabled[n])
           ran == IF chainCall.pc = "running" THEN Append(chainCall.done, chainCall.cur)
                  ELSE chainCall.done
       IN /\ execution_order = Placed(chainReg, cDeps, cPriority)
          /\ Len(ran) <= Len(enabledOrder)
          /\ ran = SubSeq(enabledOrder, 1, Len(ran))
          /\ chainCall.pc = "returned" => ran = enabledOrder
          /\ \A d \in SeqSet(chainCall.done) :
               /\ cState[d] \in {"completed", "failed"}
               /\ cMetrics[d].successful_runs + cMetrics[d].failed_runs >= 1
          /\ chainCall.pc = "running" =>
               /\ cState[chainCall.cur] = "running"
               /\ \A d \in RegDeps(chainCall.cur) :
                    cEnabled[d] => d \in SeqSet(chainCall.done)

C5_DependencyOrder == C5_Order /\ C5_Exec

\* C5 as stated: every registered dependency of the agent that starts, enabled
\* or not, has finished in this execution.
C5_AllDependenciesFinished ==
    (chainCall.arg = "none" /\ chainCall.pc = "running") =>
        RegDeps(chainCall.cur) \subseteq SeqSet(chainCall.done)

C5_Witness ==
    /\ chainCall.pc = "running" /\ chainCall.arg = "none"
    /\ chainCall.cur = "y" /\ chainCall.done = <<"z", "x">>
    /\ "x" \in cDeps["y"]
    /\ cPriority["z"] < cPriority["x"]

\* ---- C6.  With a cycle among the registered dependencies, execute (with or
\* without an agent_name) fails with the circular-dependency error before any
\* run() is invoked and leaves every agent's state and metrics as they were.
C6_NoRun == HasCycle => chainCall.pc # "running"

C6_Raises ==
    (HasCycle /\ chainCall.pc # "running" /\ chainCall'.pc # "idle") =>
       /\ chainCall'.pc = "raised"
       /\ chainCall'.exc = "CircularDependency"
       /\ chainCall'.done = << >>
       /\ cState' = cState
       /\ cMetrics' = cMetrics

C6_CycleFails == [](C6_NoRun) /\ [][C6_Raises]_vars

C6_Witness ==
    /\ chainCall.pc = "raised" /\ chainCall.arg = "y"
    /\ "x" \in cDeps["y"] /\ "y" \in cDeps["x"]
    /\ {"x", "y"} \subseteq Registered
    /\ cMetrics["y"].total_runs > 0

\* ---- C7.  After any sequence of chain executions every agent has
\* total_runs = successful_runs + failed_runs, whether run() returned or raised.
C7_CountersAgree ==
    \A n \in CNames :
        cMetrics[n].total_runs = cMetrics[n].successful_runs + cMetrics[n].failed_runs

\* ---- C8.  An agent's consecutive_failures is the number of failure updates
\* since its last success update (or since the record was created); is_healthy
\* is false exactly when consecutive_failures >= 3; a success update leaves the
\* record at consecutive_failures 0, is_healthy true and last_error cleared,
\* also when the agent was unhealthy before it.
C8_HealthTracksFailures ==
    /\ \A n \in DOMAIN agent_health :
         /\ agent_health[n].consecutive_failures = failsSince[n]
         /\ agent_health[n].is_healthy <=> agent_health[n].consecutive_failures < 3
    /\ (monLast.op = "update_agent_health" /\ monLast.success) =>
         /\ monLast.name \in DOMAIN agent_health
         /\ agent_health[monLast.name].consecutive_failures = 0
         /\ agent_health[monLast.name].is_healthy
         /\ agent_health[monLast.name].last_error = "none"

C8_Witness ==
    /\ monLast.op = "update_agent_health" /\ monLast.success
    /\ ~monLast.healthy_before
    /\ agent_health[monLast.name].is_healthy
    /\ \E n \in DOMAIN agent_health :
         ~agent_health[n].is_healthy /\ agent_health[n].consecutive_failures > 3

\* ---- C9.  The breaker lets calls through initially and while fewer than
\* failure_threshold failures have been recorded since the last record_success
\* or recovery; the record_failure that brings that count to failure_threshold
\* opens the circuit, and can_proceed is then false.
C9_OpensAtThreshold ==
    /\ breaker.failure_count = cbFails
    /\ cbFails < failure_threshold =>
         /\ ~breaker.is_open
         /\ can_proceed_value(breaker, clock)
         /\ cbLast.op = "can_proceed" => cbLast.result
    /\ (cbLast.op = "record_failure" /\ cbFails = failure_threshold) =>
         /\ breaker.is_open
         /\ ~can_proceed_value(breaker, clock)
         /\ can_proceed_state(breaker, clock) = breaker

C9_Witness ==
    /\ cbLast.op = "record_failure" /\ ~cbLast.open_before
    /\ cbFails = failure_threshold
    /\ breaker.is_open

\* ---- C10.  A can_proceed call on an open circuit made less than
\* recovery_timeout after last_failure_time returns false and changes nothing;
\* one made when at least recovery_timeout has elapsed returns true, closes the
\* circuit and resets failure_count to 0; nothing else lets a call through an
\* open circuit.
C10_Step ==
    (breaker.is_open /\ cbLast'.op = "can_proceed") =>
       IF clock - breaker.last_failure_time < recovery_timeout
       THEN /\ ~cbLast'.result
            /\ breaker' = breaker
       ELSE /\ cbLast'.result
            /\ ~breaker'.is_open
            /\ breaker'.failure_count = 0

C10_OpenUntilRecovery == [][C10_Step]_vars

C10_Witness ==
    /\ cbLast.op = "can_proceed" /\ cbLast.open_before /\ cbLast.result
    /\ ~breaker.is_open /\ breaker.failure_count = 0
    /\ clock - breaker.last_failure_time = recovery_timeout

\* ---- C11.  A record_failure that immediately follows a recovery probe (a
\* can_proceed that returned true on an open circuit) re-opens the circuit, so
\* that can_proceed is false again, whatever failure_threshold >= 1 is.
C11_ProbeFailureReopens ==
    (cbLast.op = "record_failure" /\ cbLast.after_probe) =>
        /\ breaker.is_open
        /\ ~can_proceed_value(breaker, clock)

\* ---- C12.  get never returns an entry whose age is ttl_seconds or more: such
\* an entry yields none, is removed from the cache and counts as a miss; an
\* entry younger than ttl_seconds is returned, stays cached and counts as a hit.
IsGetStep == hit_count' + miss_count' # hit_count + miss_count

C12_Get ==
    IsGetStep =>
       LET key == cacheLast'.key
       IN key \in DOMAIN cacheEntry =>
            IF cacheNow - cacheEntry[key].timestamp >= ttl_seconds
            THEN /\ cacheLast'.result = NoEntry
                 /\ key \notin DOMAIN cacheEntry'
                 /\ \A i \in 1..Len(cacheKeys') : cacheKeys'[i] # key
                 /\ miss_count' = miss_count + 1 /\ hit_count' = hit_count
            ELSE /\ cacheLast'.result = cacheEntry[key]
                 /\ key \in DOMAIN cacheEntry' /\ cacheEntry'[key] = cacheEntry[key]
                 /\ hit_count' = hit_count + 1 /\ miss_count' = miss_count

C12_Returned ==
    (cacheLast.op = "get" /\ cacheLast.result # NoEntry) =>
        cacheNow - cacheLast.result.timestamp < ttl_seconds

C12_NoStaleEntry == [](C12_Returned) /\ [][C12_Get]_vars

C12_Witness ==
    /\ cacheLast.op = "get" /\ cacheLast.result = NoEntry
    /\ cacheLast.args \in DOMAIN lastSet
    /\ cacheNow - lastSet[cacheLast.args].timestamp = ttl_seconds
    /\ cacheLast.key \notin DOMAIN cacheEntry
    /\ miss_count = 2 /\ hit_count = 0
    /\ Len(cacheKeys) = 1

\* ---- C13.  The cache never holds more than max_entries entries; a set of a
\* new key into a cache holding max_entries entries removes exactly one entry,
\* one with the smallest timestamp, and keeps every other entry as it was.
IsSetStep == setCount' # setCount

C13_Size ==
    /\ Len(cacheKeys) <= max_entries
    /\ Cardinality(DOMAIN cacheEntry) = Len(cacheKeys)
    /\ DOMAIN cacheEntry = SeqSet(cacheKeys)

C13_Evicts ==
    (IsSetStep /\ Cardinality(DOMAIN cacheEntry) = max_entries) =>
       \A key \in DOMAIN cacheEntry' \ DOMAIN cacheEntry :
          \E victim \in DOMAIN cacheEntry :
             /\ \A k \in DOMAIN cacheEntry :
                  cacheEntry[victim].timestamp <= cacheEntry[k].timestamp
             /\ DOMAIN cacheEntry' = (DOMAIN cacheEntry \ {victim}) \cup {key}
             /\ \A k \in DOMAIN cacheEntry \ {victim} : cacheEntry'[k] = cacheEntry[k]

C13_NewKeyStored ==
    IsSetStep => \E k \in DOMAIN cacheEntry' :
                    cacheEntry'[k].indexer_name = Payload(setCount').indexer_name

C13_BoundedEviction == [](C13_Size) /\ [][C13_Evicts /\ C13_NewKeyStored]_vars

C13_Witness ==
    /\ setCount = 3 /\ Cardinality(DOMAIN lastSet) = 3
    /\ Len(cacheKeys) = max_entries
    /\ \E gone \in DOMAIN lastSet :
         /\ make_key(gone[1], gone[2]) \notin DOMAIN cacheEntry
         /\ \A k \in DOMAIN cacheEntry : lastSet[gone].timestamp < cacheEntry[k].timestamp
    /\ \E k \in DOMAIN cacheEntry : cacheEntry[k].indexer_name = Payload(3).indexer_name

\* ---- C14.  A get for (service, id) issued within the TTL after a set for it,
\* the key not invalidated or evicted since, returns the name, success flag and
\* error of the most recent set for that (service, id); every get increments
\* exactly one of the hit and miss counters, the hit counter exactly when an
\* entry is returned, and no other operation changes either counter.
C14_ReturnsLastSet ==
    (cacheLast.op = "get" /\ cacheLast.result # NoEntry) =>
        /\ cacheLast.args \in DOMAIN lastSet
        /\ cacheLast.result = lastSet[cacheLast.args]

C14_FreshIsReturned ==
    (cacheLast'.op = "get" /\ IsGetStep) =>
       LET a == cacheLast'.args
       IN (/\ a \in DOMAIN lastSet
           /\ make_key(a[1], a[2]) \in DOMAIN cacheEntry
           /\ cacheNow - lastSet[a].timestamp < ttl_seconds)
          => cacheLast'.result = lastSet[a]

C14_Counters ==
    \/ /\ cacheLast'.op = "get"
       /\ IF cacheLast'.result # NoEntry
          THEN hit_count' = hit_count + 1 /\ miss_count' = miss_count
          ELSE hit_count' = hit_count /\ miss_count' = miss_count + 1
    \/ /\ cacheLast'.op # "get"
       /\ hit_count' = hit_count /\ miss_count' = miss_count

C14_GetAfterSet == [](C14_ReturnsLastSet) /\ [][C14_FreshIsReturned /\ C14_Counters]_vars

C14_Witness ==
    /\ cacheLast.op = "get" /\ cacheLast.result # NoEntry
    /\ cacheLast.result.indexer_name = Payload(2).indexer_name
    /\ setCount = 2 /\ Cardinality(DOMAIN lastSet) = 1
    /\ hit_count = 1 /\ miss_count = 1

\* ---- C15.  In a heal cycle exactly one audit record is staged per tested
\* resource, with success equal to the test outcome; exactly one disable call
\* follows each failed test and none a passed one; exactly one commit, covering
\* all staged records, is attempted, after every service was fetched and every
\* listed resource tested (so after every disable call).
LogIdx(name) == {i \in 1..Len(healLog) : healLog[i].call = name}

TestCalls == SelectSeq(healLog, LAMBDA c : c.call = "test_indexer")

TestRecords ==
    [i \in 1..Len(TestCalls) |->
        [service |-> TestCalls[i].service, indexer_id |-> TestCalls[i].id,
         success |-> TestCalls[i].ok]]

TestsOf(service) == SelectSeq(TestCalls, LAMBDA c : c.service = service)

C15_OneRecordPerTest ==
    healPc \in {"fetch", "test", "disable", "commit"} => staged = TestRecords

C15_OneDisablePerFailure ==
    /\ \A i \in LogIdx("test_indexer") :
         IF healLog[i].ok
         THEN i < Len(healLog) => healLog[i + 1].call # "disable_indexer"
         ELSE IF i = Len(healLog) THEN healPc = "disable"
              ELSE /\ healLog[i + 1].call = "disable_indexer"
                   /\ healLog[i + 1].service = healLog[i].service
                   /\ healLog[i + 1].id = healLog[i].id
    /\ \A j \in LogIdx("disable_indexer") :
         j > 1 /\ healLog[j - 1].call = "test_indexer" /\ ~healLog[j - 1].ok

C15_OneCommitAtEnd ==
    /\ Cardinality(LogIdx("commit")) <= 1
    /\ healPc \in {"fetch", "test", "disable", "commit"} => LogIdx("commit") = {}
    /\ healPc = "done" =>
         \E c \in LogIdx("commit") :
            /\ \A i \in LogIdx("get_indexers") \cup LogIdx("test_indexer")
                        \cup LogIdx("disable_indexer") : i < c
            /\ \A k \in 1..Len(HealServices) :
                 \E f \in LogIdx("get_indexers") :
                    /\ healLog[f].service = HealServices[k]
                    /\ Len(TestsOf(HealServices[k])) = healLog[f].id
                    /\ \A n \in 1..healLog[f].id : TestsOf(HealServices[k])[n].id = n
            /\ healLog[c].ok => \E e \in EarlierRecords : persisted = e \o TestRecords

FailedFetches == {i \in LogIdx("get_indexers") : ~healLog[i].ok}

C17_FetchFailure ==
    \A f \in FailedFetches :
        /\ \A i \in 1..Len(healLog) :
             healLog[i].call \in {"test_indexer", "disable_indexer"}
                => healLog[i].service # healLog[f].service
        /\ \A i \in 1..Len(staged) : staged[i].service # healLog[f].service
        /\ healPc = "done" =>
             /\ LogIdx("commit") # {}
             /\ \A k \in 1..Len(HealServices) :
                  HealServices[k] # healLog[f].service =>
                     \E g \in LogIdx("get_indexers") :
                        /\ healLog[g].service = HealServices[k]
                        /\ healLog[g].ok =>
                             Len(TestsOf(HealServices[k])) = healLog[g].id

C17_Witness ==
    /\ healPc = "done"
    /\ healLog[1].call = "get_indexers" /\ ~healLog[1].ok
    /\ Len(TestsOf(HealServices[2])) = MaxIndexers
    /\ LogIdx("commit") # {}

\* ---- C18.  When the disable call for a failing resource fails, the failure
\* record staged for that resource stays staged and is part of the commit, and
\* the cycle goes on to test the remaining resources and services.
FailedDisables == {i \in LogIdx("disable_indexer") : ~healLog[i].ok}

C18_DisableFailure ==
    \A d \in FailedDisables :
       LET rec == [service |-> healLog[d].service, indexer_id |-> healLog[d].id,
                   success |-> FALSE]
       IN /\ healPc \in {"fetch", "test", "disable", "commit"} =>
               \E i \in 1..Len(staged) : staged[i] = rec
          /\ (healPc = "done" /\ \E c \in LogIdx("commit") : healLog[c].ok) =>
               \E i \in 1..Len(persisted) : persisted[i] = rec
          /\ healPc \in {"commit", "done"} =>
               \A k \in 1..Len(HealServices) :
                  \E g \in LogIdx("get_indexers") :
                     /\ healLog[g].service = HealServices[k]
                     /\ Len(TestsOf(HealServices[k])) = healLog[g].id

C18_Witness ==
    /\ healPc = "done"
    /\ \E c \in LogIdx("commit") : healLog[c].ok
    /\ healLog[3].call = "disable_indexer" /\ ~healLog[3].ok
    /\ Len(TestCalls) = 2 * MaxIndexers
    /\ remoteEnabled[<<healLog[3].service, healLog[3].id>>]

\* ---- C19.  While a schedule stays registered its next_execution never moves
\* backward, and it changes only in a step in which a run of that agent
\* finishes, to the completion time plus the interval; a rejected or skipped
\* call, enable_agent, disable_agent and the passing of time leave it alone.
RunFinishes(n) ==
    \E t \in Tasks :
        /\ task[t].pc = "running" /\ task[t].name = n
        /\ \/ task'[t].pc # "running"
           \/ task'[t].it_pos # task[t].it_pos

C19_Step ==
    \A n \in DOMAIN schedules \cap DOMAIN schedules' :
        /\ schedules'[n].next_execution >= schedules[n].next_execution
        /\ schedules'[n].next_execution # schedules[n].next_execution =>
             /\ RunFinishes(n)
             /\ schedules'[n].next_execution = now + schedules[n].interval_seconds
             /\ schedules'[n].last_executed = now

C19_Registered ==
    \A n \in DOMAIN schedules :
        /\ schedules[n].next_execution # NoTime
        /\ schedules[n].last_executed # NoTime =>
             schedules[n].next_execution =
                schedules[n].last_executed + schedules[n].interval_seconds

C19_NextExecutionAdvances == [](C19_Registered) /\ [][C19_Step]_vars

C19_Witness ==
    /\ "a" \in DOMAIN schedules
    /\ schedules["a"].last_executed >= 1
    /\ schedules["a"].interval_seconds >= 1
    /\ schedules["a"].next_execution =
          schedules["a"].last_executed + schedules["a"].interval_seconds
    /\ metrics.total_agent_runs = 1
    /\ task["poller"].pc = "running" /\ task["poller"].name = "a"
    /\ task["api1"].pc = "returned" /\ task["api1"].skip = "at_cap"

\* ---- C20.  execute_scheduled_agents starts a run only for an agent whose
\* schedule is enabled and due (next_execution unset or not later than now): a
\* never-run scheduled agent is started by the poll that finds it first, an
\* agent is not started by a poll made before interval seconds have passed
\* since its last run completed, and a disabled schedule is never started.
PollStarts(n) ==
    /\ task'["poller"].pc = "running" /\ task'["poller"].name = n
    /\ \/ task["poller"].pc # "running"
       \/ task'["poller"].it_pos # task["poller"].it_pos

C20_OnlyDue ==
    \A n \in Names :
        PollStarts(n) =>
           /\ n \in DOMAIN schedules'
           /\ schedules'[n].enabled
           /\ \/ schedules'[n].next_execution = NoTime
              \/ schedules'[n].next_execution <= now
           /\ schedules'[n].last_executed # NoTime =>
                now >= schedules'[n].last_executed + schedules'[n].interval_seconds

C20_FirstPollRuns ==
    \A n \in DOMAIN schedules :
        (/\ task["poller"].pc # "running"
         /\ task'["poller"].kind = "poll" /\ task'["poller"].pc # "idle"
         /\ schedKeys # << >> /\ \A i \in 1..Len(schedKeys) : schedKeys[i] \in {n, Tomb}
         /\ schedules[n].enabled /\ schedules[n].last_executed = NoTime
         /\ active_runs[n] = 0)
        => /\ task'["poller"].pc = "running"
           /\ task'["poller"].name = n

C20_PollRunsDueOnly == [][C20_OnlyDue /\ C20_FirstPollRuns]_vars

C20_Witness ==
    /\ "a" \in DOMAIN schedules
    /\ task["poller"].pc = "running" /\ task["poller"].name = "a"
    /\ schedules["a"].last_executed # NoTime
    /\ now = schedules["a"].last_executed + schedules["a"].interval_seconds
    /\ metrics.total_agent_runs = 1

\* ---- C21.  In the main loop an exception that leaves a polling cycle does
\* not end the loop: the cycle is counted once in failed_cycles and once in
\* total_cycles and the loop goes to sleep, and polls again when it wakes
\* unless it was stopped or cancelled.  A cycle that returns results counts one
\* in total_cycles and one in successful_cycles if all its results succeeded,
\* else one in failed_cycles; a cycle without results counts nothing; and
\* total_cycles = successful_cycles + failed_cycles in every state.
C21_CyclesSum ==
    cycles.total_cycles = cycles.successful_cycles + cycles.failed_cycles

C21_CycleCounted ==
    LET p == task'["poller"]
        d == [k \in DOMAIN cycles |-> cycles'[k] - cycles[k]]
    IN /\ p.pc = "raised" =>
            /\ loop'.pc = "sleeping"
            /\ d = [total_cycles |-> 1, successful_cycles |-> 0, failed_cycles |-> 1]
       /\ p.pc = "returned" =>
            /\ loop'.pc = "sleeping"
            /\ d = IF p.results = << >>
                   THEN [total_cycles |-> 0, successful_cycles |-> 0, failed_cycles |-> 0]
                   ELSE IF \E i \in 1..Len(p.results) : p.results[i] # "ok"
                   THEN [total_cycles |-> 1, successful_cycles |-> 0, failed_cycles |-> 1]
                   ELSE [total_cycles |-> 1, successful_cycles |-> 1, failed_cycles |-> 0]
       /\ p.pc \notin {"raised", "returned"} => cycles' = cycles

C21_LoopGoesOn ==
    /\ (loop.pc \in {"polling", "sleeping"} /\ loop'.pc \in {"stopping", "done"}) =>
          /\ loop.pc = "sleeping"
          /\ ~running \/ loop'.cancelled
    /\ (loop.pc = "sleeping" /\ running /\ loop' # loop) =>
          \/ loop'.cancelled
          \/ task'["poller"].kind = "poll" /\ task'["poller"].pc = "running"

C21_LoopSurvivesCycle ==
    [](C21_CyclesSum) /\ [][C21_CycleCounted /\ C21_LoopGoesOn]_vars

C21_Witness ==
    /\ task["poller"].pc = "raised"
    /\ loop.pc = "sleeping" /\ running
    /\ cycles = [total_cycles |-> 2, successful_cycles |-> 1, failed_cycles |-> 1]

\* ---- C22.  Once stop() has cleared the running flag of a running
\* orchestrator, the main loop calls execute_scheduled_agents no more, and,
\* the runs in progress, the sleep and the cleanups returning, start() ends.
PollCalled ==
    /\ task["poller"].pc # "running"
    /\ task'["poller"].kind = "poll"
    /\ task'["poller"].pc # "idle"

C22_NoNewCycle == PollCalled => running'

StopRequested == ~running /\ loop.pc \in {"polling", "sleeping", "stopping"}

C22_StopEndsLoop ==
    /\ [][C22_NoNewCycle]_vars
    /\ StopRequested ~> (loop.pc = "done")

C22_Witness ==
    /\ loop.pc = "done" /\ ~loop.cancelled
    /\ stopCall["api"].pc # "idle"
    /\ stopCall["loop"].cleaned # << >>
    /\ metrics.total_agent_runs >= 1

\* ---- C23.  stop() calls cleanup() on every registered agent, also after a
\* cleanup that raised: when a stop() call ends, every agent that was
\* registered when it was called and still is has had its cleanup() called.
StopEnds(c) ==
    /\ stopCall[c].pc = "cleaning"
    /\ stopCall'[c].pc \in {"returned", "raised"}

C23_Step ==
    \A c \in StopCallers :
        StopEnds(c) =>
           (stopCall'[c].at_call \cap agents') \subseteq SeqSet(stopCall'[c].cleaned)

C23_StopCleansEveryAgent == [][C23_Step]_vars

\* ---- C24.  After a run started by execute_agent has finished the agent's
\* own record shows it: the state of a registered agent is Running only while
\* one of its runs is in progress.
C24_RunningOnlyDuringRun ==
    \A n \in agents :
        agentState[n] = "running" => \E t \in Tasks : task[t].pc = "running" /\ task[t].name = n

\* ---- C26.  A failure update that brings the failures of an agent since its
\* last success to 3 leaves the agent unhealthy and appends to the buffer an
\* AGENT_FAILED event for that agent carrying the count 3; a failure update
\* that leaves the count below 3, and a success update, leave the buffer as
\* it was.
C26_Step ==
    LET n == monLast'.name
        e == [event_type |-> "agent_failed", agent_name |-> n, failures |-> 3]
    IN monLast'.op = "update_agent_health" =>
         /\ (~monLast'.success /\ failsSince'[n] = 3) =>
               /\ ~agent_health'[n].is_healthy
               /\ \E k \in 0..Len(events) :
                     events' = SubSeq(events, k + 1, Len(events)) \o <<e>>
         /\ (monLast'.success \/ failsSince'[n] < 3) => events' = events

C26_FailedEventAtThreshold == [][C26_Step]_vars

C26_Witness ==
    /\ monLast.op = "update_agent_health" /\ ~monLast.success
    /\ failsSince[monLast.name] = 3
    /\ ~agent_health[monLast.name].is_healthy
    /\ events # << >>
    /\ events[Len(events)] =
         [event_type |-> "agent_failed", agent_name |-> monLast.name, failures |-> 3]
    /\ Len(events) = max_event_history

\* ---- C25.  Under every configured max_event_history the event buffer holds
\* at most that many events.
C25_BufferWithinCap == evCap # NoMonitor => Len(evBuf) <= evCap

\* ---- C27.  get_events never returns more than limit events, for every
\* limit of 0 or more.
C27_AtMostLimit ==
    evQuery.op = "get_events" => Len(evQuery.result) <= evQuery.limit

\* ---- C28.  execute(agent_name) with a registered, enabled name runs exactly
\* that agent: run() is invoked on it and on no other agent, and only its
\* state and metrics change.  A disabled agent is never run by execute, and no
\* step changes its state or metrics.  (As stated, whatever the dependencies;
\* amended: when the registered dependencies hold no cycle.)
ExecuteCalled ==
    /\ chainCall.pc # "running"
    /\ chainCall'.pc \in {"running", "returned", "raised"}

NamedRuns(a) ==
    /\ chainCall'.pc = "running"
    /\ chainCall'.cur = a
    /\ chainCall'.todo = << >>
    /\ cState' = [cState EXCEPT ![a] = "running"]

C28_RunsNamedAgent ==
    LET a == chainCall'.arg
    IN (ExecuteCalled /\ a \in Registered /\ cEnabled[a]) => NamedRuns(a)

C28_RunsNamedAgentUnlessCycle ==
    LET a == chainCall'.arg
    IN (ExecuteCalled /\ a \in Registered /\ cEnabled[a] /\ ~HasCycle) => NamedRuns(a)

C28_OnlyNamedAgent ==
    (chainCall.pc = "running" /\ chainCall.arg # "none") =>
        /\ chainCall.cur = chainCall.arg
        /\ chainCall'.pc = "returned"
        /\ chainCall'.done = <<chainCall.arg>>
        /\ \A n \in CNames \ {chainCall.arg} :
              cState'[n] = cState[n] /\ cMetrics'[n] = cMetrics[n]

C28_DisabledUntouched ==
    \A n \in Registered :
        ~cEnabled[n] =>
           /\ cState'[n] = cState[n]
           /\ cMetrics'[n] = cMetrics[n]
           /\ ~(chainCall'.pc = "running" /\ chainCall'.cur = n)

DisabledCallEnds(t) ==
    /\ task[t].pc = "running" /\ task[t].kind = "exec" /\ ~callFlag[t]
    /\ task'[t].pc # "running"

C29_Runs ==
    \A t \in Tasks \ {"poller"}, n \in agents :
        ( /\ ~agentEnabled[n]
          /\ ~CapReached(schedules, active_runs, n)
          /\ task[t].pc # "running" /\ task'[t].pc # "idle"
          /\ task'[t].kind = "exec" /\ task'[t].name = n )
        => /\ task'[t].pc = "running"
           /\ active_runs'[n] = active_runs[n] + 1

C29_ReturnsResult ==
    \A t \in Tasks :
        DisabledCallEnds(t) =>
            /\ task'[t].pc = "returned"
            /\ task'[t].result = ResultOf(task'[t].ran)

C29_DisabledStillRuns == [][C29_Runs]_vars

C29_DisabledRunReturns == [][C29_Runs /\ C29_ReturnsResult]_vars


\* ---- C30.  disable_indexer (enable_indexer) makes exactly one update call,
\* to the service it was given, with a record equal to the caller's except
\* that its enable flag is false (true); the caller's record stays as it was;
\* the call returns when the update returns and ends with the update's error
\* when the update raises one.
C30_CallStep ==
    (ctlCall.pc # "awaiting" /\ ctlCall'.pc = "awaiting") =>
        LET sent == ctlSent'[Len(ctlSent')]
        IN /\ Len(ctlSent') = Len(ctlSent) + 1
           /\ SubSeq(ctlSent', 1, Len(ctlSent)) = ctlSent
           /\ sent.service = ctlCall'.service
           /\ DOMAIN sent.record = DOMAIN ctlCall'.arg \cup {"enable"}
           /\ sent.record["enable"] = (ctlCall'.op = "enable_indexer")
           /\ \A k \in DOMAIN ctlCall'.arg \ {"enable"} : sent.record[k] = ctlCall'.arg[k]
           /\ ctlHeap'["indexer"] = ctlCall'.arg

C30_EndStep ==
    (ctlCall.pc = "awaiting" /\ ctlCall'.pc # "awaiting") =>
        /\ ctlSent' = ctlSent
        /\ ctlHeap'["indexer"] = ctlCall.arg
        /\ ctlCall'.update = "ok" => ctlCall'.pc = "returned"
        /\ ctlCall'.update # "ok" =>
              /\ ctlCall'.update \in UpdateErrors
              /\ ctlCall'.pc = "raised"
              /\ ctlCall'.exc = ctlCall'.update

C30_OneUpdateOnCopy == [][C30_CallStep /\ C30_EndStep]_vars

C30_Witness ==
    /\ ctlCall.pc = "raised" /\ ctlCall.op = "disable_indexer"
    /\ ctlCall.update = "HTTPStatusError" /\ ctlCall.exc = "HTTPStatusError"
    /\ ctlCall.arg = [id |-> 1, name |-> "n", enable |-> TRUE]
    /\ ctlHeap["indexer"] = [id |-> 1, name |-> "n", enable |-> TRUE]
    /\ Len(ctlSent) = 1
    /\ ctlSent[1].record = [id |-> 1, name |-> "n", enable |-> FALSE]


\* ---- C34.  In every reachable state the orchestrator's agent counters
\* agree: total_agent_runs = total_agent_successes + total_agent_failures,
\* also after a run whose run() raised.
C34_AgentCountersAgree ==
    metrics.total_agent_runs =
        metrics.total_agent_successes + metrics.total_agent_failures


\* ---- C37.  A call to execute_agent that is turned away by the concurrency
\* cap changes nothing: the active-run counters, the orchestrator's agent
\* counters, the agents' states and the schedules (last_executed and
\* next_execution among their fields) are after the call what they were
\* before it.
C37_Step ==
    \A t \in Tasks :
        (task'[t].pc = "returned" /\ task'[t].kind = "exec" /\ task'[t].skip = "at_cap")
        => /\ active_runs' = active_runs
           /\ metrics' = metrics
           /\ agentState' = agentState
           /\ schedules' = schedules
           /\ \A u \in Tasks \ {t} : task'[u] = Settled[u]

C37_RejectionChangesNothing == [][C37_Step]_vars

C37_Witness ==
    /\ task["api1"].pc = "returned" /\ task["api1"].skip = "at_cap"
    /\ task["api1"].name = "a" /\ task["api1"].result = "none"
    /\ task["poller"].pc = "running" /\ task["poller"].name = "a"
    /\ active_runs["a"] = 1
    /\ now >= 1
    /\ schedules["a"].last_executed = NoTime
    /\ schedules["a"].next_execution < now
    /\ agentState["a"] = "running"


\* ---- C38.  The concurrency cap holds only agents that have a schedule: a
\* call to execute_agent on an agent registered without an interval is never
\* turned away, whatever the number of its runs in progress, and starts a
\* run; so the active-run counter of such an agent can exceed 1.
C38_Step ==
    \A t \in Tasks, n \in agents :
        ( /\ n \notin DOMAIN schedules
          /\ task[t].pc # "running" /\ task'[t].pc # "idle"
          /\ task'[t].kind = "exec" /\ task'[t].name = n )
        => /\ task'[t].pc = "running"
           /\ task'[t].skip = "none"
           /\ active_runs'[n] = active_runs[n] + 1

C32_OrchStep ==
    LET n == regLast'.name
    IN regLast'.on = "orchestrator" =>
         /\ n \in agents =>
               /\ regLast'.exc = "ValueError"
               /\ agents' = agents
               /\ schedules' = schedules /\ schedKeys' = schedKeys
               /\ active_runs' = active_runs
         /\ n \notin agents =>
               /\ regLast'.exc = "none"
               /\ agents' = agents \cup {n}

C32_ChainStep ==
    LET n == regLast'.name
    IN regLast'.on = "chain" =>
         /\ n \in SeqSet(chainReg) =>
               /\ regLast'.exc = "ValueError"
               /\ chainReg' = chainReg
               /\ cPriority' = cPriority /\ cEnabled' = cEnabled /\ cDeps' = cDeps
         /\ n \notin SeqSet(chainReg) =>
               /\ regLast'.exc = "none"
               /\ chainReg' = Append(chainReg, n)

C32_NamesUnique ==
    /\ \A i, j \in 1..Len(chainReg) : chainReg[i] = chainReg[j] => i = j
    /\ \A i, j \in 1..Len(schedKeys) :
          (schedKeys[i] # Tomb /\ schedKeys[i] = schedKeys[j]) => i = j
    /\ DOMAIN active_runs = agents
    /\ DOMAIN schedules \subseteq agents

C32_DuplicateRejected == [](C32_NamesUnique) /\ [][C32_OrchStep /\ C32_ChainStep]_vars

C32_Witness ==
    /\ regLast = [on |-> "orchestrator", name |-> "a", exc |-> "ValueError"]
    /\ "a" \in DOMAIN schedules /\ active_runs["a"] = 1
    /\ task["api1"].pc = "running" /\ task["api1"].name = "a"
    /\ chainReg = <<"x", "y">>


\* ---- C33.  In every reachable state of the breaker is_open is true exactly
\* when failure_count >= failure_threshold, across any sequence of
\* record_success, record_failure and can_proceed calls.
C33_OpenIffAtThreshold ==
    breaker.is_open <=> (breaker.failure_count >= failure_threshold)

C33_Witness ==
    /\ breaker.is_open
    /\ breaker.failure_count = failure_threshold + 1
    /\ cbLast.op = "record_failure" /\ cbLast.open_before


\* ---- C36.  A set for a key that the cache already holds replaces that key's
\* entry and removes no other entry, also when the cache holds max_entries
\* entries.
C36_Step ==
    IsSetStep =>
      \A a \in DOMAIN lastSet' :
         LET key == make_key(a[1], a[2])
         IN (lastSet'[a].indexer_name = Payload(setCount').indexer_name
               /\ key \in DOMAIN cacheEntry)
            => /\ DOMAIN cacheEntry' = DOMAIN cacheEntry
               /\ cacheEntry'[key] = lastSet'[a]
               /\ \A k \in DOMAIN cacheEntry \ {key} : cacheEntry'[k] = cacheEntry[k]

C36_SetOfHeldKeyKeepsOthers == [][C36_Step]_vars


\* ---- C39.  Every failure update that ends with the agent's
\* consecutive_failures at or above 3, the ones on an already unhealthy agent
\* included, appends exactly one AGENT_FAILED event for the agent, carrying
\* that count; every other update appends none.  So the AGENT_FAILED events
\* update_agent_health records for an agent are as many as its failure
\* updates that ended at or above 3, not as many as its turns to unhealthy.
C39_Step ==
    LET n == monLast'.name
        cf == failsSince'[n]
        e == [event_type |-> "agent_failed", agent_name |-> n, failures |-> cf]
    IN monLast'.op = "update_agent_health" =>
         /\ (~monLast'.success /\ cf >= 3) =>
               /\ agent_health'[n].consecutive_failures = cf
               /\ ~agent_health'[n].is_healthy
               /\ \E k \in 0..Len(events) :
                     events' = SubSeq(events, k + 1, Len(events)) \o <<e>>
         /\ (monLast'.success \/ cf < 3) => events' = events

C39_EventPerFailureAboveThreshold == [][C39_Step]_vars

C39_Witness ==
    /\ monLast.op = "update_agent_health" /\ ~monLast.success
    /\ ~monLast.healthy_before
    /\ failsSince[monLast.name] = 4
    /\ Len(events) = 2
    /\ events[1] = [event_type |-> "agent_failed", agent_name |-> monLast.name, failures |-> 3]
    /\ events[2] = [event_type |-> "agent_failed", agent_name |-> monLast.name, failures |-> 4]


\* ---- C40.  In execute() without an agent_name the failure of an agent (a
\* failed result or an exception from run()) keeps no other agent from being
\* run: at every suspension the agents run so far, the one running and the
\* enabled ones still to come are the enabled agents of the resolved order, in
\* that order, and the call returns when each of them has been run once.
\* (As stated, for every call; amended: for a call without an agent_name.)
EnabledOf(q) == SelectSeq(q, LAMBDA n : cEnabled[n])

C35_AtMostOneLoop == Cardinality({l \in StartCalls : LoopActive(l)}) <= 1

C35_NoResume ==
    [][\A l \in StartCalls : starts[l].told => starts'[l].polls = starts[l].polls]_vars


\* ---- C31.  IndexerHealthAgent.run never raises and calls nothing but
\* get_indexers and test_indexer (the database and the indexers' settings
\* are left alone); when it has returned, every service was fetched once, in
\* order, every indexer of every list fetched was tested once, whatever the
\* earlier fetches and tests did, and the result is successful exactly when
\* every fetch succeeded.
HealthCallsOf(service) ==
    SelectSeq(health.log, LAMBDA c : c.service = service)

\* the calls a full check of one service makes: the fetch, then one test per
\* indexer listed, in the order listed
C31_ServiceFullyChecked(service) ==
    LET calls == HealthCallsOf(service)
    IN /\ Len(calls) >= 1
       /\ calls[1].call = "get_indexers"
       /\ Len(calls) = 1 + calls[1].id
       /\ \A i \in 2..Len(calls) : calls[i].call = "test_indexer" /\ calls[i].id = i - 1

C31_ReadOnlyAndComplete ==
    /\ health.pc # "raised"
    /\ \A i \in 1..Len(health.log) : health.log[i].call \in {"get_indexers", "test_indexer"}
    /\ staged = << >> /\ persisted = << >> /\ remoteEnabled = [k \in HealKeys |-> TRUE]
    /\ health.pc = "returned" =>
          /\ \A i \in 1..Len(HealthServices) : C31_ServiceFullyChecked(HealthServices[i])
          /\ health.result.success <=>
                \A i \in 1..Len(health.log) :
                    health.log[i].call = "get_indexers" => health.log[i].ok

\* a cycle that returned after the first fetch failed and a test of the
\* second service failed
C31_Witness ==
    /\ health.pc = "returned"
    /\ ~health.log[1].ok
    /\ \E i \in 1..Len(health.log) :
          health.log[i].call = "test_indexer" /\ ~health.log[i].ok
          /\ \E j \in (i+1)..Len(health.log) : health.log[j].call = "test_indexer"

\* a cycle in which every fetch succeeded and a test failed
C31_WitnessSuccess ==
    /\ health.pc = "returned"
    /\ health.result.success
    /\ \E i \in 1..Len(health.log) : ~health.log[i].ok

====
